---- MODULE Spec2Model ----
(***************************************************************************)
(* Model of the symbol-extraction pass (SymbolsPass, its transformers and  *)
(* UniqueSymbolCollection) as the JavaScript compiled from the TypeScript  *)
(* source executes it.                                                     *)
(*                                                                         *)
(* The tree walker is modelled by the two visitor calls it makes, preorder *)
(* and postorder; the tree itself is generated node by node while it is    *)
(* walked.  An exception thrown by a visitor call ends the walk.           *)
(***************************************************************************)
EXTENDS Integers, Sequences, FiniteSets, TLC

VARIABLES
    spine,             \* the walker's spine with the node under visit on top
    nodeCount,         \* nodes created so far (node ids are 1..nodeCount)
    transformerStack,  \* SymbolsPass._transformerStack
    lastTransformer,   \* SymbolsPass._lastTransformer
    classStack,        \* NameResolver's class stack
    references,        \* SymbolsPass.references
    nodeReference,     \* the `reference` slot of every node that has one
    lastPhpDoc,        \* SymbolsPass.lastPhpDoc (with lastPhpDocLocation)
    status,            \* "walking", "done" or "failed" (a call threw)
    ev,                \* the last visitor call: what it was and what it did
    tree,              \* the nodes walked so far, in the order they were entered
    rules,             \* NameResolver.rules: the use clauses whose symbol it holds
    namespace,         \* NameResolver.namespace: the definition whose symbol it is
    docGiven,          \* the doc slot handed to the constructor made for a node
    collection,        \* a UniqueSymbolCollection driven directly
    pushed,            \* every symbol handed to `collection`, in call order
    unit,              \* a declaration's transformers driven directly: what
                       \* they were given and what came of it
    files,             \* the cache directory: what each bucket file holds
    slot,              \* the cache calls whose promises the caller holds
    prev,              \* the call a slot held before its present one
    opCount,           \* cache calls made so far
    everWritten,       \* the keys write was ever called with
    nameCall           \* a name handed to acronym or keys, and what came back

vars == <<spine, nodeCount, transformerStack, lastTransformer, classStack,
          references, nodeReference, lastPhpDoc, status, ev, tree, rules,
          namespace, docGiven, collection, pushed, unit, files, slot, prev,
          opCount, everWritten, nameCall>>

walkVars == <<spine, nodeCount, transformerStack, lastTransformer, classStack,
              references, nodeReference, lastPhpDoc, status, ev, tree, rules,
              namespace, docGiven>>

collectionVars == <<collection, pushed>>

unitVars == <<unit>>

cacheVars == <<files, slot, prev, opCount, everWritten>>

nameVars == <<nameCall>>

(***************************************************************************)
(* Bounds                                                                  *)
(***************************************************************************)
MaxNodes == 3
MaxDepth == 3
MaxPushes == 3
MaxMany == 2
MaxDocNodes == 4
MaxDocDepth == 3
MaxModifiers == 2
MaxElements == 2
MaxArgs == 2

Last(s) == s[Len(s)]
Front(s) == SubSeq(s, 1, Len(s) - 1)

(***************************************************************************)
(* UniqueSymbolCollection                                                  *)
(***************************************************************************)
_inbuilt ==
    {"$GLOBALS", "$_SERVER", "$_GET", "$_POST", "$_FILES", "$_REQUEST",
     "$_SESSION", "$_ENV", "$_COOKIE", "$php_errormsg", "$HTTP_RAW_POST_DATA",
     "$http_response_header", "$argc", "$argv", "$this"}

\* the constructor with this._varMap = {}
UniqueSymbolCollection_new_emptyMap == [symbols |-> <<>>, varMap |-> {}]

\* constructor(): no symbols, _varMap a copy of _inbuilt
UniqueSymbolCollection_new == [symbols |-> <<>>, varMap |-> _inbuilt]

\* s.kind & (SymbolKind.Parameter | SymbolKind.Variable)
IsVariableOrParameter(s) == s.kind \in {"Parameter", "Variable"}

\* push without this._varMap[s.name] = true
UniqueSymbolCollection_push_forgetsName(c, s) ==
    IF IsVariableOrParameter(s)
    THEN IF s.name \notin c.varMap
         THEN [c EXCEPT !.symbols = Append(@, s)]
         ELSE c
    ELSE [c EXCEPT !.symbols = Append(@, s)]

\* push without the test of s.kind: every symbol goes through _varMap
UniqueSymbolCollection_push_anyKind(c, s) ==
    IF s.name \notin c.varMap
    THEN [symbols |-> Append(c.symbols, s), varMap |-> c.varMap \cup {s.name}]
    ELSE c

UniqueSymbolCollection_push(c, s) ==
    IF IsVariableOrParameter(s)
    THEN IF s.name \notin c.varMap
         THEN [symbols |-> Append(c.symbols, s), varMap |-> c.varMap \cup {s.name}]
         ELSE c
    ELSE [c EXCEPT !.symbols = Append(@, s)]

RECURSIVE UniqueSymbolCollection_pushMany(_, _)
UniqueSymbolCollection_pushMany(c, symbols) ==
    IF symbols = <<>> THEN c
    ELSE UniqueSymbolCollection_pushMany(
             UniqueSymbolCollection_push(c, Head(symbols)), Tail(symbols))


(***************************************************************************)
(* Values                                                                  *)
(***************************************************************************)
\* What a transformer's `node` field can hold.  A constructor called with
\* fewer or other arguments than it declares binds `node` to whatever came
\* first: nothing, a PackedLocation, or the name resolver.
NodeOf(n) == <<"node", n>>
NoNode == <<"undefined", 0>>
LocationOf(n) == <<"location", n>>
TheNameResolver == <<"nameResolver", 0>>

\* The ParsedDocument object.  preorder builds a TokenTransform as
\* new TokenTransform(node, this.document): its `text` is the document and
\* its `location` is undefined.
TheDocument == "[object ParsedDocument]"
Undefined == "undefined"
IsTruthyString(x) == x \notin {"", Undefined}

\* The texts a name can hold: what is written in the source, and the
\* document converted to a string
WrittenNames == {"prop", "$prop", "meth", "FOO"}
NameTexts == WrittenNames \cup {"", TheDocument}

\* name[0] === '$'
StartsWithDollar(name) == \E t \in NameTexts : name = "$" \o t

NoCollection == [symbols |-> <<>>, varMap |-> {}]

\* Entries of the transformer stack: null, undefined, or a transformer.
NoSymbol == [kind |-> "", name |-> Undefined, location |-> 0]

\* SymbolModifier bits, as the set of the bits that are set
Visibility == {"Public", "Protected", "Private"}

\* The `modifiers` (or `modifier`, `_modifier`, `symbol.modifiers`) a
\* transformer starts with.
InitialModifiers ==
    [MethodDeclarationHeaderTransformer |-> {"Public"},
     FieldDeclarationTransform |-> {"Public"},
     ClassConstantElementTransform |-> {"Static"},
     AnonymousFunctionCreationExpressionTransform |-> {"Anonymous"},
     AnonymousFunctionUseVariableTransformer |-> {"Use"}]

NullEntry ==
    [tag |-> "null", cls |-> "", node |-> NoNode, phraseType |-> "",
     symbolKind |-> "", value |-> NoCollection, modifiers |-> {},
     items |-> <<>>, symbol |-> NoSymbol, type |-> ""]
UndefinedEntry == [NullEntry EXCEPT !.tag = "undefined"]
Transformer(cls, node, phraseType, symbolKind, value) ==
    [tag |-> "transformer", cls |-> cls, node |-> node, phraseType |-> phraseType,
     symbolKind |-> symbolKind, value |-> value,
     modifiers |-> IF cls \in DOMAIN InitialModifiers THEN InitialModifiers[cls]
                   ELSE {},
     items |-> <<>>, symbol |-> NoSymbol, type |-> ""]
IsTransformer(e) == e.tag = "transformer"

\* private _utils: NodeUtils is declared and never assigned
_utils == Undefined

(***************************************************************************)
(* preorder: the transformer each phrase type gets                         *)
(***************************************************************************)
\* Phrase types whose transformer's constructor calls a method of the
\* NodeUtils it is given.
CtorUsesNodeUtils ==
    {"TopStatementList", "NamespaceDefinition", "NamespaceUseClause",
     "NamespaceUseGroupClause", "ConstElement", "FunctionDeclaration"}

\* new X(node, ..., this._utils, ...): `node` is the visited node
NodeUtilsTransformers ==
    [TopStatementList |-> "FileTransform",
     NamespaceDefinition |-> "NamespaceDefinitionTransformer",
     NamespaceUseClause |-> "NamespaceUseClauseTransformer",
     NamespaceUseGroupClause |-> "NamespaceUseClauseTransformer",
     ConstElement |-> "ConstElementTransformer",
     FunctionDeclaration |-> "FunctionDeclarationTransform"]

\* Phrase types whose case instantiates a class that the file neither
\* declares nor imports.
CtorNotDeclared ==
    {"ReturnType", "ClassBaseClause", "ClassInterfaceClause",
     "InterfaceBaseClause", "AnonymousFunctionUseClause"}

\* Phrase types whose case pushes the new symbol on the resolver's class stack.
PushesClass == {"ClassDeclaration", "InterfaceDeclaration", "AnonymousClassDeclaration"}

\* Phrase types whose case pushes the new symbol on the resolver's rules.
PushesRule == {"NamespaceUseClause", "NamespaceUseGroupClause"}

\* Phrase types whose case hands this.lastPhpDoc and this.lastPhpDocLocation
\* to the constructor.
TakesPhpDoc ==
    {"ConstElement", "FunctionDeclaration", "ParameterDeclaration",
     "ClassDeclaration", "InterfaceDeclaration", "TraitDeclaration",
     "ClassConstElement", "PropertyElement", "MethodDeclaration"}

\* Transformer classes whose `node` is the visited node.
SimpleNodeTransformers ==
    [NamespaceDefinitionHeader |-> "NamespaceDefinitionHeaderTransformer",
     NamespaceUseDeclaration |-> "NamespaceUseDeclarationTransformer",
     NamespaceAliasingClause |-> "NamespaceAliasingClauseTransformer",
     ScopedMemberName |-> "ScopedMemberNameTransform",
     MemberName |-> "MemberNameTransform"]

\* Transformer classes constructed without the node, so that `node` stays
\* undefined (the class declares none, or the call passes no argument).
NoNodeTransformers ==
    [FunctionDeclarationHeader |-> "FunctionDeclarationHeaderTransform",
     ParameterDeclarationList |-> "DelimiteredListTransformer",
     TypeDeclaration |-> "TypeDeclarationTransformer",
     FunctionDeclarationBody |-> "FunctionDeclarationBodyTransform",
     MethodDeclarationBody |-> "FunctionDeclarationBodyTransform",
     ClassDeclaration |-> "ClassDeclarationTransform",
     ClassDeclarationHeader |-> "ClassDeclarationHeaderTransform",
     ClassDeclarationBody |-> "TypeDeclarationBodyTransform",
     InterfaceDeclaration |-> "InterfaceDeclarationTransformer",
     InterfaceDeclarationHeader |-> "InterfaceDeclarationHeaderTransformer",
     InterfaceDeclarationBody |-> "TypeDeclarationBodyTransform",
     TraitDeclaration |-> "TraitDeclarationTransform",
     TraitDeclarationHeader |-> "TraitDeclarationHeaderTransform",
     TraitDeclarationBody |-> "TypeDeclarationBodyTransform",
     ClassConstDeclaration |-> "FieldDeclarationTransform",
     ClassConstElementList |-> "DelimiteredListTransformer",
     PropertyDeclaration |-> "FieldDeclarationTransform",
     PropertyElementList |-> "DelimiteredListTransformer",
     PropertyInitialiser |-> "PropertyInitialiserTransformer",
     TraitUseClause |-> "TraitUseClauseTransform",
     MethodDeclaration |-> "MethodDeclarationTransform",
     MethodDeclarationHeader |-> "MethodDeclarationHeaderTransformer",
     MemberModifierList |-> "MemberModifierListTransform",
     AnonymousClassDeclaration |-> "AnonymousClassDeclarationTransform",
     AnonymousClassDeclarationHeader |-> "AnonymousClassDeclarationHeaderTransformer",
     AnonymousFunctionCreationExpression |-> "AnonymousFunctionCreationExpressionTransform",
     AnonymousFunctionHeader |-> "AnonymousFunctionHeaderTransformer",
     ClosureUseList |-> "DelimiteredListTransformer"]

\* Transformer classes that declare (node, location, ...) and are called
\* with the location first: `node` is the location.
LocationAsNodeTransformers ==
    [ParameterDeclaration |-> "ParameterDeclarationTransformer",
     AnonymousFunctionUseVariable |-> "AnonymousFunctionUseVariableTransformer",
     SimpleVariable |-> "SimpleVariableTransform"]

\* Transformer classes that declare (node, nameResolver, location, ...) and
\* are called with the name resolver first.
ResolverAsNodeTransformers ==
    [ClassConstElement |-> "ClassConstantElementTransform",
     PropertyElement |-> "PropertyElementTransformer"]

\* new MemberAccessExpressionTransform(phraseType, symbolKind, ...)
MemberAccessKinds ==
    [ScopedCallExpression |-> "Method",
     ScopedPropertyAccessExpression |-> "Property",
     ClassConstantAccessExpression |-> "ClassConstant",
     PropertyAccessExpression |-> "Property",
     MethodCallExpression |-> "Method"]

\* Cases that create a transformer only under a transformer, else push null.
NameTransformers ==
    [QualifiedNameList |-> "DelimiteredListTransformer",
     FullyQualifiedName |-> "FullyQualifiedNameTransformer",
     RelativeQualifiedName |-> "RelativeQualifiedNameTransformer",
     QualifiedName |-> "QualifiedNameTransformer"]

\* Transformer classes that own a UniqueSymbolCollection
OwnsCollection ==
    {"FileTransform", "NamespaceDefinitionTransformer", "FunctionDeclarationTransform",
     "FunctionDeclarationBodyTransform", "MethodDeclarationTransform",
     "AnonymousFunctionCreationExpressionTransform"}

NewValue(cls) == IF cls \in OwnsCollection THEN UniqueSymbolCollection_new ELSE NoCollection

Throw(where) == [outcome |-> "throw", entry |-> NullEntry, where |-> where]
Push(e) == [outcome |-> "push", entry |-> e, where |-> ""]
PushNothing == [outcome |-> "none", entry |-> NullEntry, where |-> ""]
Plain(cls, node, pt) == Push(Transformer(cls, node, pt, "", NewValue(cls)))

\* The switch of preorder over node.phraseType, for a phrase node.
\* parentType is parentNode.phraseType, parentTransform the stack top (or
\* UndefinedEntry for an empty stack), grandParent spine[spine.length - 2]
\* as a node value (NoNode when there is none).
preorderPhrase(node, parentType, parentTransform, grandParent) ==
    LET pt == node.type
        hasParent == IsTransformer(parentTransform)
    IN
    CASE pt \in CtorUsesNodeUtils ->
            IF _utils = Undefined THEN Throw("nodeUtils.nodePackedLocation")
            ELSE Plain(NodeUtilsTransformers[pt], NodeOf(node.id), pt)
      [] pt \in CtorNotDeclared -> Throw("class is not defined")
      [] pt \in DOMAIN SimpleNodeTransformers ->
            Plain(SimpleNodeTransformers[pt], NodeOf(node.id), pt)
      [] pt \in DOMAIN NoNodeTransformers ->
            Plain(NoNodeTransformers[pt], NoNode, pt)
      [] pt \in DOMAIN LocationAsNodeTransformers ->
            Plain(LocationAsNodeTransformers[pt], LocationOf(node.id), pt)
      [] pt \in DOMAIN ResolverAsNodeTransformers ->
            Plain(ResolverAsNodeTransformers[pt], TheNameResolver, pt)
      [] pt \in DOMAIN MemberAccessKinds ->
            Push(Transformer("MemberAccessExpressionTransform", NoNode, pt,
                             MemberAccessKinds[pt], NoCollection))
      [] pt \in DOMAIN NameTransformers ->
            IF hasParent THEN Plain(NameTransformers[pt], NoNode, pt)
            ELSE Push(NullEntry)
      [] pt = "Identifier" ->
            IF parentType \in {"MethodDeclarationHeader", "ClassConstElement"}
            THEN Plain("IdentifierTransformer", NoNode, pt)
            ELSE Push(NullEntry)
      [] pt = "FunctionCallExpression" ->
            IF node.define
            THEN Plain("DefineFunctionCallExpressionTransform", LocationOf(node.id), pt)
            ELSE Push(UndefinedEntry)
      [] pt = "ArgumentExpressionList" ->
            IF parentType = "FunctionCallExpression" /\ hasParent
            THEN Plain("DelimiteredListTransformer", NoNode, pt)
            ELSE Push(NullEntry)
      [] pt = "NamespaceName" ->
            \* new NamespaceNameTransformer(): the constructor assigns to
            \* this.node.reference with this.node undefined
            IF hasParent THEN Throw("this.node.reference") ELSE Push(NullEntry)
      [] OTHER ->
            IF parentType = "ArgumentExpressionList"
            THEN IF ~hasParent THEN Throw("parentTransform.node")
                 ELSE IF parentTransform.node = grandParent
                      THEN Plain("DefaultNodeTransformer", NodeOf(node.id), pt)
                      ELSE PushNothing
            ELSE PushNothing


(***************************************************************************)
(* What preorder and postorder hand to a transformer's push                *)
(***************************************************************************)
NoReference == [kind |-> "", name |-> Undefined, unresolvedName |-> Undefined]

\* Reference.create(kind, name, range)
Reference_create(kind, name) == [kind |-> kind, name |-> name, unresolvedName |-> Undefined]

\* new TokenTransform(node, this.document): the constructor declares
\* (node, text, location), so text is the document and location undefined
TokenTransform(tokenType) ==
    [cls |-> "TokenTransform", tokenType |-> tokenType, phraseType |-> "",
     text |-> TheDocument, hasLocation |-> FALSE, symbol |-> NoSymbol, node |-> NoNode,
     modifiers |-> {}, items |-> <<>>, value |-> NoCollection, type |-> Undefined]

\* new CatchClauseVariableNameTransform(tokenText, location): has tokenType,
\* symbol and reference, and neither text nor location
CatchClauseVariableNameTransform(name, location) ==
    [cls |-> "CatchClauseVariableNameTransform", tokenType |-> "VariableName",
     phraseType |-> "", text |-> Undefined, hasLocation |-> FALSE,
     symbol |-> [kind |-> "Variable", name |-> name, location |-> location],
     node |-> NoNode, modifiers |-> {}, items |-> <<>>, value |-> NoCollection,
     type |-> Undefined]

\* A transformer popped from the stack, as the child of the new stack top
PoppedTransformer(e) ==
    [cls |-> e.cls, tokenType |-> "", phraseType |-> e.phraseType,
     text |-> Undefined, hasLocation |-> FALSE, symbol |-> e.symbol, node |-> e.node,
     modifiers |-> e.modifiers, items |-> e.items, value |-> e.value,
     type |-> e.type]

(***************************************************************************)
(* SymbolReader: symbols from the tags of a doc comment                    *)
(***************************************************************************)
MaxTags == 2
MaxMembers == 1

\* the @property, @property-read and @property-write tags of a doc comment
PropertyTags ==
    {[tagName |-> "@property", name |-> "$p", isStatic |-> FALSE, parameters |-> <<>>],
     [tagName |-> "@property-read", name |-> "$r", isStatic |-> FALSE,
      parameters |-> <<>>],
     [tagName |-> "@property-write", name |-> "$w", isStatic |-> FALSE,
      parameters |-> <<>>]}

\* its @method tags
MethodTags ==
    {[tagName |-> "@method", name |-> "m", isStatic |-> FALSE, parameters |-> <<>>],
     [tagName |-> "@method", name |-> "s", isStatic |-> TRUE,
      parameters |-> <<"$a">>]}

\* this.lastPhpDoc when no doc comment precedes the declaration
NoPhpDoc == [propertyTags |-> <<>>, methodTags |-> <<>>, isDoc |-> FALSE]

\* PhpSymbol.create(kind, name, location): no scope, no modifiers
PhpSymbol_create(kind, name) ==
    [kind |-> kind, name |-> name, modifiers |-> {}, scope |-> Undefined,
     children |-> <<>>]

\* PhpSymbol.setScope(symbols, scope): the symbols, each with that scope
PhpSymbol_setScope(symbols, scope) ==
    [i \in 1..Len(symbols) |-> [symbols[i] EXCEPT !.scope = scope]]

\* the modifier of a property tag with read and write exchanged
magicPropertyModifier_exchanged(t) ==
    CASE t.tagName = "@property-read" -> {"WriteOnly"}
      [] t.tagName = "@property-write" -> {"ReadOnly"}
      [] OTHER -> {}

\* SymbolReader.magicPropertyModifier
magicPropertyModifier(t) ==
    CASE t.tagName = "@property-read" -> {"ReadOnly"}
      [] t.tagName = "@property-write" -> {"WriteOnly"}
      [] OTHER -> {}

\* SymbolReader.propertyTagToSymbol
propertyTagToSymbol(t) ==
    [PhpSymbol_create("Property", t.name)
        EXCEPT !.modifiers = magicPropertyModifier(t) \cup {"Magic", "Public"}]

\* SymbolReader.magicMethodParameterToSymbol
magicMethodParameterToSymbol(p) ==
    [PhpSymbol_create("Parameter", p) EXCEPT !.modifiers = {"Magic"}]

\* SymbolReader.methodTagToSymbol
methodTagToSymbol(t) ==
    [PhpSymbol_create("Method", t.name)
        EXCEPT !.modifiers = {"Magic", "Public"}
                                \cup (IF t.isStatic THEN {"Static"} ELSE {}),
               !.children = [i \in 1..Len(t.parameters) |->
                                magicMethodParameterToSymbol(t.parameters[i])]]

\* SymbolReader.phpDocMembers
phpDocMembers(phpDoc) ==
    [n \in 1..Len(phpDoc.propertyTags) |-> propertyTagToSymbol(phpDoc.propertyTags[n])]
    \o [n \in 1..Len(phpDoc.methodTags) |-> methodTagToSymbol(phpDoc.methodTags[n])]

\* SymbolReader.assignPhpDocInfoToSymbol, for the children of a symbol of
\* that kind
assignPhpDocInfoToSymbol(kind, children, doc) ==
    IF ~doc.isDoc THEN children
    ELSE IF kind \in {"Class", "Trait", "Interface"}
    THEN children \o phpDocMembers(doc)
    ELSE children

\* symbol.children after the constructor of ClassDeclarationTransform,
\* InterfaceDeclarationTransformer or TraitDeclarationTransform
TypeDeclaration_children(kind, doc) ==
    IF kind = "Class"
    THEN \* this.symbol.children = []; then assignPhpDocInfoToSymbol
         assignPhpDocInfoToSymbol(kind, <<>>, doc)
    ELSE \* assignPhpDocInfoToSymbol; then this.symbol.children = []
         <<>>

\* this.nameResolver.resolveRelative(name) with current namespace ns
resolveRelative(ns, name) == IF ns = "" THEN name ELSE ns \o "\\" \o name

\* this.nameResolver.namespaceName: '' as long as no NamespaceDefinition
\* has set it
namespaceName == ""

\* the `name` of a declaration header transformer: '' until a Name token
\* is pushed, and that push throws
HeaderName(header) == ""

\* the transformers of class, interface and trait declarations
TypeDeclarationTransformers ==
    {"ClassDeclarationTransform", "InterfaceDeclarationTransformer",
     "TraitDeclarationTransform"}

\* Header transformers declared (node, nameResolver) and constructed with no
\* argument: this.nameResolver is undefined
HeadersWithoutResolver ==
    {"FunctionDeclarationHeaderTransform", "ClassDeclarationHeaderTransform",
     "InterfaceDeclarationHeaderTransformer", "TraitDeclarationHeaderTransform"}

\* Transformers whose push reads location.range when given a VariableName
ReadsLocationOfVariableName ==
    {"PropertyElementTransformer", "SimpleVariableTransform",
     "AnonymousFunctionUseVariableTransformer"}

\* Transformers whose push reads child.text for any child their earlier
\* branches did not take
ReadsText == {"IdentifierTransformer", "PropertyInitialiserTransformer"}

\* DefaultNodeTransformer.text calls this.utils.nodeText
TextThrows(child) == child.cls = "DefaultNodeTransformer" /\ _utils = Undefined

\* MemberModifierListTransform.push: the token types it has a case for
ModifierTokens == {"Public", "Protected", "Private", "Abstract", "Final", "Static"}

\* DefineFunctionCallExpressionTransform.push: the literals taken as a value
ScalarLiterals == {"FloatingLiteral", "IntegerLiteral", "StringLiteral"}

\* parent.push(child) for the transformer classes; refs is the table of
\* reference objects, which parent and child share with their nodes.
TransformerPush(parent, child, refs) ==
    LET cls == parent.cls
        tt == child.tokenType
        cpt == child.phraseType
        ok(p, r) == [outcome |-> "ok", where |-> "", parent |-> p, refs |-> r]
        same == ok(parent, refs)
        throw(w) == [outcome |-> "throw", where |-> w, parent |-> parent, refs |-> refs]
        ownRef == refs[parent.node[2]]
        childRef == refs[child.node[2]]
        \* FieldDeclarationTransform.elementType: the constructor is called
        \* with one argument, so it is undefined, as the phraseType of a
        \* transformer that has none
        elementType == ""
    IN
    CASE cls = "ClassDeclarationHeaderTransform" /\ tt \in {"Abstract", "Final"} ->
            \* this.modifier = SymbolModifier.Abstract / Final
            ok([parent EXCEPT !.modifiers = {tt}], refs)
      [] cls \in HeadersWithoutResolver
            /\ ~(cls = "ClassDeclarationHeaderTransform" /\ tt \in {"Abstract", "Final"}) ->
            IF tt = "Name" THEN throw("this.nameResolver.resolveRelative") ELSE same
      [] cls = "ClassDeclarationTransform" ->
            IF child.cls = "ClassDeclarationHeaderTransform"
            THEN ok([parent EXCEPT !.modifiers = child.modifiers,
                                   !.symbol.name =
                                       resolveRelative(namespaceName, HeaderName(child))], refs)
            ELSE IF cpt = "ClassDeclarationBody"
            THEN ok([parent EXCEPT !.items =
                        @ \o PhpSymbol_setScope(child.items, parent.symbol.name)], refs)
            ELSE same
      [] cls \in {"InterfaceDeclarationTransformer", "TraitDeclarationTransform"} ->
            IF cpt \in {"InterfaceDeclarationHeader", "TraitDeclarationHeader"}
            THEN ok([parent EXCEPT !.symbol.name =
                                       resolveRelative(namespaceName, HeaderName(child))], refs)
            ELSE IF cpt \in {"InterfaceDeclarationBody", "TraitDeclarationBody"}
            THEN ok([parent EXCEPT !.items =
                        @ \o PhpSymbol_setScope(child.items, parent.symbol.name)], refs)
            ELSE same
      [] cls = "TypeDeclarationBodyTransform" ->
            IF cpt = "MethodDeclaration"
            THEN \* this.declarations.push(transform.symbol)
                 ok([parent EXCEPT !.items =
                        Append(@, [PhpSymbol_create("Method", "")
                                      EXCEPT !.modifiers = child.modifiers])], refs)
            ELSE same
      [] cls = "MemberModifierListTransform" ->
            IF tt \in ModifierTokens
            THEN ok([parent EXCEPT !.modifiers = @ \cup {tt}], refs)
            ELSE same
      [] cls = "MethodDeclarationHeaderTransformer" ->
            IF cpt = "MemberModifierList"
            THEN ok([parent EXCEPT !.modifiers =
                        IF child.modifiers \cap Visibility = {}
                        THEN child.modifiers \cup {"Public"}
                        ELSE child.modifiers], refs)
            ELSE same
      [] cls = "MethodDeclarationTransform" ->
            IF child.cls = "MethodDeclarationHeaderTransformer"
            THEN ok([parent EXCEPT !.modifiers = child.modifiers], refs)
            ELSE same
      [] cls = "FieldDeclarationTransform" ->
            IF cpt = "MemberModifierList"
            THEN ok([parent EXCEPT !.modifiers = child.modifiers], refs)
            ELSE IF cpt = elementType /\ child.symbol # NoSymbol
            THEN ok([parent EXCEPT !.items =
                        Append(@, [symbol |-> child.symbol,
                                   modifiers |-> child.modifiers
                                                    \cup parent.modifiers])], refs)
            ELSE same
      [] cls = "ClassConstantElementTransform" ->
            \* the location of an IdentifierTransformer is that of the
            \* TokenTransform it was given, if any: undefined
            IF cpt = "Identifier" THEN throw("transformer.location.range")
            ELSE same
      [] cls = "DelimiteredListTransformer" ->
            ok([parent EXCEPT !.items = Append(@, child)], refs)
      [] cls = "DefineFunctionCallExpressionTransform" ->
            IF cpt = "ArgumentExpressionList"
            THEN LET n == Len(child.items)
                     arg1 == child.items[1]
                     arg2 == child.items[2]
                 IN
                 \* the text of a TokenTransform is the document, which has
                 \* no slice; without a string first argument this.symbol
                 \* stays undefined
                 IF n >= 1 /\ arg1.tokenType = "StringLiteral"
                 THEN throw("arg1.text.slice")
                 ELSE IF n >= 2 /\ arg2.tokenType \in ScalarLiterals
                 THEN throw("this.symbol.value")
                 ELSE same
            ELSE same
      [] cls = "TypeDeclarationTransformer" ->
            IF cpt \in {"FullyQualifiedName", "RelativeQualifiedName", "QualifiedName"}
            THEN \* this.type = transform.name: the name transformers have a
                 \* reference and no name
                 ok([parent EXCEPT !.type = Undefined], refs)
            ELSE IF tt = "Callable" THEN ok([parent EXCEPT !.type = "callable"], refs)
            ELSE IF tt = "Array" THEN ok([parent EXCEPT !.type = "array"], refs)
            ELSE same
      [] cls = "AnonymousFunctionHeaderTransformer" ->
            IF tt = "Ampersand" THEN ok([parent EXCEPT !.modifiers = @ \cup {"Reference"}], refs)
            ELSE IF tt = "Static"
            THEN ok([parent EXCEPT !.modifiers = @ \cup {"Static"}], refs)
            ELSE IF cpt \in {"ParameterDeclaration", "AnonymousFunctionUseVariable"}
            THEN \* this.parameters.push(s) / this.uses.push(s), if (s)
                 IF child.symbol = NoSymbol THEN same
                 ELSE ok([parent EXCEPT !.items =
                             Append(@, [symbol |-> child.symbol,
                                        modifiers |-> child.modifiers,
                                        use |-> cpt = "AnonymousFunctionUseVariable"])],
                         refs)
            ELSE IF cpt = "TypeDeclaration"
            THEN ok([parent EXCEPT !.type = child.type], refs)
            ELSE same
      [] cls = "AnonymousFunctionCreationExpressionTransform" ->
            IF cpt = "AnonymousFunctionHeader"
            THEN LET IsUse(x) == x.use
                     IsParameter(x) == ~x.use
                     ordered == SelectSeq(child.items, IsParameter)
                                   \o SelectSeq(child.items, IsUse)
                 IN ok([parent EXCEPT
                           !.modifiers = @ \cup child.modifiers,
                           !.value = UniqueSymbolCollection_pushMany(
                                         @, [i \in 1..Len(ordered) |-> ordered[i].symbol]),
                           !.type = child.type], refs)
            ELSE IF cpt = "FunctionDeclarationBody"
            THEN ok([parent EXCEPT !.value =
                        UniqueSymbolCollection_pushMany(@, child.value.symbols)], refs)
            ELSE same
      [] cls = "NamespaceUseDeclarationTransformer" ->
            \* this._kind = SymbolKind.Constant / Function
            IF tt = "Const" THEN ok([parent EXCEPT !.symbolKind = "Constant"], refs)
            ELSE IF tt = "Function"
            THEN ok([parent EXCEPT !.symbolKind = "Function"], refs)
            ELSE same
      [] cls = "NamespaceAliasingClauseTransformer" ->
            IF tt = "Name" THEN throw("transform.location.range") ELSE same
      [] cls = "ParameterDeclarationTransformer" ->
            IF cpt = "TypeDeclaration" \/ tt \in {"Ampersand", "Ellipsis"} THEN same
            ELSE IF tt = "VariableName" THEN throw("transform.location.range")
            ELSE IF TextThrows(child) THEN throw("this.utils.nodeText") ELSE same
      [] cls \in ReadsLocationOfVariableName ->
            IF tt = "VariableName" THEN throw("location.range") ELSE same
      [] cls \in ReadsText ->
            IF TextThrows(child) THEN throw("this.utils.nodeText") ELSE same
      [] cls = "MemberNameTransform" ->
            IF tt = "Name"
            THEN ok(parent, [refs EXCEPT ![parent.node[2]].name = child.text])
            ELSE same
      [] cls = "ScopedMemberNameTransform" ->
            IF tt = "VariableName" \/ cpt = "Identifier"
            THEN IF TextThrows(child) THEN throw("this.utils.nodeText")
                 ELSE ok(parent, [refs EXCEPT ![parent.node[2]].name = child.text])
            ELSE same
      [] cls = "MemberAccessExpressionTransform" ->
            IF cpt \in {"ScopedMemberName", "MemberName"}
            THEN ok(parent,
                    [refs EXCEPT ![child.node[2]] =
                        [@ EXCEPT !.kind = parent.symbolKind,
                                  !.name = IF parent.symbolKind = "Property"
                                              /\ IsTruthyString(childRef.name)
                                              /\ ~StartsWithDollar(childRef.name)
                                           THEN "$" \o childRef.name
                                           ELSE childRef.name]])
            ELSE same
      [] cls = "FunctionDeclarationBodyTransform" ->
            IF cpt \in {"SimpleVariable", "AnonymousFunctionCreationExpression",
                        "AnonymousClassDeclaration", "FunctionCallExpression"}
            THEN IF child.symbol = NoSymbol THEN throw("s.kind")
                 ELSE ok([parent EXCEPT !.value =
                             UniqueSymbolCollection_push(@, child.symbol)], refs)
            ELSE IF cpt = "" /\ child.cls = "CatchClauseVariableNameTransform"
            THEN ok([parent EXCEPT !.value =
                        UniqueSymbolCollection_push(@, child.symbol)], refs)
            ELSE same
      [] OTHER -> same


(***************************************************************************)
(* The walk                                                                *)
(***************************************************************************)
\* Phrase and token types the generated trees are built from
WalkPhraseTypes ==
    {"TopStatementList", "FunctionDeclaration", "FunctionDeclarationBody",
     "ClassDeclaration", "TraitDeclaration", "ClassDeclarationHeader",
     "SimpleVariable", "MemberName", "PropertyAccessExpression",
     "MethodCallExpression", "FunctionCallExpression", "ArgumentExpressionList",
     "QualifiedName", "NamespaceName", "NamespaceUseDeclaration",
     "CatchClause", "ExpressionStatement", "NamespaceUseClause",
     "NamespaceDefinition"}
WalkTokenTypes ==
    {"Name", "VariableName", "Abstract", "DocumentComment", "CloseBrace", "Semicolon"}
VariableNames == {"$a", "$this"}

\* tokenType > TokenType.EndOfFile && tokenType < TokenType.Equals: the
\* keywords, the literals, Name and VariableName
TokenInPushRange(tokenType) ==
    tokenType \in {"Name", "VariableName", "Abstract", "Final", "Static", "Public",
                   "Protected", "Private", "Const", "Function", "Callable", "Array",
                   "StringLiteral", "IntegerLiteral", "FloatingLiteral"}

NoDoc == <<"undefined", 0>>
NullDoc == <<"null", 0>>
DocOf(n) == <<"doc", n>>

\* the doc slot with a doc comment not replacing a doc already there
tokenPhpDoc_keepsOlder(tokenType, id, current) ==
    IF tokenType = "DocumentComment"
    THEN IF current[1] = "doc" THEN current ELSE DocOf(id)
    ELSE IF tokenType = "CloseBrace" THEN NullDoc
    ELSE current

\* preorder, token case: lastPhpDoc and lastPhpDocLocation after the token
tokenPhpDoc(tokenType, id, current) ==
    IF tokenType = "DocumentComment" THEN DocOf(id)
    ELSE IF tokenType = "CloseBrace" THEN NullDoc
    ELSE current

NoEvent ==
    [call |-> "none", phrase |-> FALSE, type |-> "", node |-> 0, threw |-> FALSE,
     where |-> "", hBefore |-> 0, hAfter |-> 0, h0 |-> 0]
Event(call, node, threw, where, hBefore, hAfter) ==
    [call |-> call, phrase |-> node.phrase, type |-> node.type, node |-> node.id,
     threw |-> threw, where |-> where, hBefore |-> hBefore, hAfter |-> hAfter,
     h0 |-> node.h0]

PhraseNode(id, type, define, h0) ==
    [id |-> id, type |-> type, phrase |-> TRUE, define |-> define, text |-> "",
     h0 |-> h0, children |-> 0]
TokenNode(id, type, text, h0) ==
    [id |-> id, type |-> type, phrase |-> FALSE, define |-> FALSE, text |-> text,
     h0 |-> h0, children |-> 0]

\* Transformers whose constructor puts a new Reference (kind None, name '')
\* in the node's `reference` slot
CtorSetsReference == {"MemberNameTransform", "ScopedMemberNameTransform"}

\* index of the nearest transformer on the stack, from the top down; 0 if none
RECURSIVE NearestTransformer(_, _)
NearestTransformer(stack, n) ==
    IF n = 0 THEN 0
    ELSE IF IsTransformer(stack[n]) THEN n
    ELSE NearestTransformer(stack, n - 1)

\* the spine with the child count of the node on top raised
WithChild(sp) ==
    IF sp = <<>> THEN sp ELSE [sp EXCEPT ![Len(sp)].children = @ + 1]

\* preorder(node, spine)
preorder(node) ==
    LET parentType == IF spine = <<>> THEN "Unknown" ELSE Last(spine).type
        parentTransform ==
            IF transformerStack = <<>> THEN UndefinedEntry ELSE Last(transformerStack)
        grandParent ==
            IF Len(spine) > 1 THEN NodeOf(spine[Len(spine) - 1].id) ELSE NoNode
        h == Len(transformerStack)
        entered == Append(WithChild(spine), node)
        failed(where) ==
            /\ status' = "failed"
            /\ ev' = Event("preorder", node, TRUE, where, h, h)
        returned(stack) ==
            /\ status' = status
            /\ ev' = Event("preorder", node, FALSE, "", h, Len(stack))
    IN
    /\ spine' = entered
    /\ nodeCount' = node.id
    /\ tree' = Append(tree, [id |-> node.id, type |-> node.type, text |-> node.text,
                             parent |-> IF spine = <<>> THEN 0 ELSE Last(spine).id])
    /\ UNCHANGED <<lastTransformer, references>>
    /\ IF node.phrase
       THEN LET r == preorderPhrase(node, parentType, parentTransform, grandParent) IN
            /\ UNCHANGED lastPhpDoc
            /\ IF r.outcome = "throw"
               THEN /\ failed(r.where)
                    /\ UNCHANGED <<transformerStack, classStack, nodeReference,
                                   rules, namespace, docGiven>>
               ELSE LET stack == IF r.outcome = "push"
                                 THEN Append(transformerStack, r.entry)
                                 ELSE transformerStack IN
                    /\ transformerStack' = stack
                    /\ nodeReference' =
                          IF r.outcome = "push" /\ r.entry.cls \in CtorSetsReference
                          THEN (node.id :> Reference_create("None", "")) @@ nodeReference
                          ELSE nodeReference
                    /\ classStack' = IF node.type \in PushesClass
                                     THEN Append(classStack, node.id)
                                     ELSE classStack
                    /\ rules' = IF node.type \in PushesRule
                                THEN Append(rules, node.id)
                                ELSE rules
                    /\ namespace' = IF node.type = "NamespaceDefinition"
                                    THEN node.id
                                    ELSE namespace
                    /\ docGiven' = IF node.type \in TakesPhpDoc
                                   THEN (node.id :> lastPhpDoc) @@ docGiven
                                   ELSE docGiven
                    /\ returned(stack)
       ELSE /\ UNCHANGED <<classStack, rules, namespace, docGiven>>
            /\ lastPhpDoc' = tokenPhpDoc(node.type, node.id, lastPhpDoc)
            /\ IF node.type \in {"DocumentComment", "CloseBrace"}
               THEN /\ UNCHANGED <<transformerStack, nodeReference>>
                    /\ returned(transformerStack)
               ELSE LET catch == node.type = "VariableName" /\ parentType = "CatchClause"
                        n == IF catch THEN NearestTransformer(transformerStack, h)
                             ELSE IF IsTransformer(parentTransform)
                                     /\ TokenInPushRange(node.type)
                                  THEN h ELSE 0
                        child == IF catch
                                 THEN CatchClauseVariableNameTransform(node.text, node.id)
                                 ELSE TokenTransform(node.type)
                    IN
                    /\ IF n = 0
                       THEN /\ UNCHANGED <<transformerStack, nodeReference>>
                            /\ returned(transformerStack)
                       ELSE LET r == TransformerPush(transformerStack[n], child,
                                                     nodeReference) IN
                            IF r.outcome = "throw"
                            THEN /\ failed(r.where)
                                 /\ UNCHANGED <<transformerStack, nodeReference>>
                            ELSE /\ transformerStack' =
                                        [transformerStack EXCEPT ![n] = r.parent]
                                 /\ nodeReference' = r.refs
                                 /\ returned(transformerStack')


\* postorder: the phrase types whose transformer's pop clears the last doc
ClearsPhpDoc ==
    {"ClassDeclarationHeader", "InterfaceDeclarationHeader",
     "AnonymousClassDeclarationHeader", "FunctionDeclarationHeader",
     "MethodDeclarationHeader", "TraitDeclarationHeader", "AnonymousFunctionHeader"}

\* postorder: "these nodes will have reference info"
HasReferenceInfo ==
    {"FullyQualifiedName", "QualifiedName", "RelativeQualifiedName", "SimpleVariable",
     "MemberName", "ScopedMemberName", "NamespaceName", "ClassDeclarationHeader",
     "InterfaceDeclarationHeader", "TraitDeclarationHeader",
     "FunctionDeclarationHeader", "ConstElement", "PropertyElement",
     "ClassConstElement", "MethodDeclarationHeader", "ParameterDeclaration",
     "AnonymousFunctionUseVariable", "RelativeScope"}

\* this.referenceNameSet is not a member of SymbolsPass
referenceNameSet == Undefined

\* addRefName(ref): TRUE when it throws
addRefNameThrows(ref) ==
    /\ ref # NoReference
    /\ IsTruthyString(ref.name) \/ IsTruthyString(ref.unresolvedName)
    /\ referenceNameSet = Undefined

\* the `reference` slot of a node (NoReference when the node has none)
ReferenceOf(refs, n) == IF n \in DOMAIN refs THEN refs[n] ELSE NoReference

\* postorder(node, spine), node being the top of the model's spine
postorder ==
    LET node == Last(spine)
        h == Len(transformerStack)
        left == Front(spine)
        failed(where, stack) ==
            /\ status' = "failed"
            /\ spine' = spine
            /\ ev' = Event("postorder", node, TRUE, where, h, Len(stack))
        returned(stack) ==
            /\ status' = IF left = <<>> THEN "done" ELSE "walking"
            /\ spine' = left
            /\ ev' = Event("postorder", node, FALSE, "", h, Len(stack))
    IN
    /\ UNCHANGED <<nodeCount, classStack, references, tree, rules, namespace,
                   docGiven>>
    /\ IF ~node.phrase
       THEN \* tokens dont get a transformer pushed to stack
            /\ returned(transformerStack)
            /\ UNCHANGED <<transformerStack, lastTransformer, nodeReference, lastPhpDoc>>
       ELSE LET transformer ==
                    IF h = 0 THEN UndefinedEntry ELSE transformerStack[h] IN
            IF ~IsTransformer(transformer)
            THEN \* transformer.node of null or undefined
                 /\ failed("transformer.node", transformerStack)
                 /\ UNCHANGED <<transformerStack, lastTransformer, nodeReference,
                                lastPhpDoc>>
            ELSE IF transformer.node # NodeOf(node.id)
            THEN \* a transformer wasnt pushed to stack for this node
                 /\ returned(transformerStack)
                 /\ UNCHANGED <<transformerStack, lastTransformer, nodeReference,
                                lastPhpDoc>>
            ELSE LET popped == Front(transformerStack)
                     parent == IF popped = <<>> THEN UndefinedEntry ELSE Last(popped)
                     r == IF popped = <<>>
                          THEN [outcome |-> "ok", where |-> "", parent |-> parent,
                                refs |-> nodeReference]
                          ELSE IF ~IsTransformer(parent)
                          THEN [outcome |-> "throw", where |-> "parent.push",
                                parent |-> parent, refs |-> nodeReference]
                          ELSE TransformerPush(parent, PoppedTransformer(transformer),
                                               nodeReference)
                     stack == IF popped = <<>> THEN popped
                              ELSE [popped EXCEPT ![Len(popped)] = r.parent]
                     ref == ReferenceOf(r.refs, node.id)
                 IN
                 /\ lastTransformer' = transformer
                 /\ transformerStack' = stack
                 /\ nodeReference' = r.refs
                 /\ IF r.outcome = "throw"
                    THEN /\ failed(r.where, stack)
                         /\ UNCHANGED lastPhpDoc
                    ELSE /\ lastPhpDoc' = IF node.type \in ClearsPhpDoc
                                          THEN NullDoc ELSE lastPhpDoc
                         /\ IF node.type \in HasReferenceInfo /\ addRefNameThrows(ref)
                            THEN failed("this.referenceNameSet.add", stack)
                            ELSE returned(stack)

\* this.document.uri
TheUri == "file:///test.php"

\* FileTransform: get symbol()
FileTransform_symbol(e) ==
    [kind |-> "File", name |-> TheUri, children |-> e.value.symbols]

\* FunctionDeclarationTransform: get symbol(); the name stays '' until a
\* header is pushed
FunctionDeclarationTransform_symbol(e) ==
    [kind |-> "Function", name |-> "", children |-> e.value.symbols]

\* get symbol(): the symbol of the last transformer popped, if any
SymbolsPass_symbol ==
    IF ~IsTransformer(lastTransformer)
    THEN [kind |-> Undefined, name |-> Undefined, children |-> <<>>]
    ELSE CASE lastTransformer.cls = "FileTransform" ->
                 FileTransform_symbol(lastTransformer)
           [] lastTransformer.cls = "FunctionDeclarationTransform" ->
                 FunctionDeclarationTransform_symbol(lastTransformer)
           [] OTHER ->
                 [kind |-> lastTransformer.symbolKind, name |-> Undefined,
                  children |-> lastTransformer.value.symbols]

\* no declaration has been driven yet
NoUnit ==
    [what |-> "none", tokens |-> <<>>, hasList |-> FALSE, count |-> 0,
     inBody |-> FALSE, threw |-> FALSE, where |-> "", modifiers |-> {},
     symbols |-> <<>>, symbol |-> NoSymbol, phraseType |-> "", written |-> "",
     reference |-> NoReference, kind |-> "", ns |-> "", doc |-> NoPhpDoc,
     magic |-> <<>>, name |-> "", children |-> <<>>, prefix |-> "", alias |-> "",
     type |-> ""]

(***************************************************************************)
(* FileCache (cache.ts): a directory of bucket files, each holding the     *)
(* [key, data] pairs of the keys whose hash names the file.  Every cache   *)
(* operation is a promise chain: fs.readFile, then a handler that may      *)
(* start fs.writeFile or fs.unlink.  A file operation takes effect and     *)
(* calls back at some later turn of the event loop; the promise handlers   *)
(* hanging off a callback run before any other callback does.              *)
(***************************************************************************)
MaxOps == 4          \* cache calls made one after another in one run
MaxAsyncOps == 3     \* cache calls made in one run without awaiting
MaxFaultyOps == 2    \* cache calls made in one run on a directory that can be damaged

CacheKeys == {"k1", "k2", "k3"}
CacheData == {"d1", "d2"}     \* values JSON represents
CachePaths == {"f1", "f2"}
Slots == {1, 2}               \* promises the caller may hold at once

\* FileCache._filePath: the file is named by the key's 32-bit hash, so
\* different keys can name one file; here k1 and k2 do.
_filePath(key) == IF key = "k3" THEN "f2" ELSE "f1"

\* Node's error codes, and err.message
NoError == ""
ENOENT == "ENOENT"
EIO == "EIO"
Message(code) == "message of " \o code

\* What a file holds: nothing (no such file), the text of a bucket, or text
\* that is not JSON.
NoFile == <<"none">>
NotJson == <<"text">>
JSON_stringify(bucket) == <<"json", bucket>>
JSON_parse(data) ==
    IF data[1] = "json" THEN [threw |-> FALSE, value |-> data[2]]
    ELSE [threw |-> TRUE, value |-> <<>>]

\* fs.readFile's callback arguments for a file, with or without an I/O fault
fs_readFile(content, fault) ==
    IF fault THEN [err |-> EIO, data |-> NoFile]
    ELSE IF content = NoFile THEN [err |-> ENOENT, data |-> NoFile]
    ELSE [err |-> NoError, data |-> content]

\* How a promise stands.  `defined` tells a bucket from undefined.
Pending == [state |-> "pending", value |-> Undefined, defined |-> FALSE, bucket |-> <<>>]
Resolve(value) == [Pending EXCEPT !.state = "resolved", !.value = value]
ResolveBucket(bucket) ==
    [Pending EXCEPT !.state = "resolved", !.defined = TRUE, !.bucket = bucket]
Reject(message) == [Pending EXCEPT !.state = "rejected", !.value = message]

\* writeFile's callback: the promise it settles
writeFile(err) ==
    IF err # NoError THEN Reject(Message(err)) ELSE Resolve(Undefined)

\* deleteFile's callback
deleteFile(err) ==
    IF err # NoError /\ err # ENOENT THEN Reject(Message(err))
    ELSE Resolve(Undefined)

readFile_resolvingOnAnyError(r) ==
    IF r.err # NoError THEN Resolve(Undefined)
    ELSE LET parsed == JSON_parse(r.data)
         IN IF parsed.threw THEN Pending ELSE ResolveBucket(parsed.value)

\* readFile's callback.  JSON.parse runs inside the callback, outside the
\* promise's executor: when it throws, neither resolve nor reject is called.
readFile(r) ==
    IF r.err # NoError
    THEN IF r.err = ENOENT THEN Resolve(Undefined) ELSE Reject(Message(r.err))
    ELSE LET parsed == JSON_parse(r.data)
         IN IF parsed.threw THEN Pending ELSE ResolveBucket(parsed.value)

\* bucketFind: the first pair of the key, <<>> for undefined
bucketFind(bucket, key) ==
    LET found == {i \in 1..Len(bucket) : bucket[i][1] = key}
    IN IF found = {} THEN <<>>
       ELSE bucket[CHOOSE i \in found : \A j \in found : i <= j]

bucketRemove(bucket, key) == SelectSeq(bucket, LAMBDA b : b[1] # key)

\* FileCache.read's handler: what the promise resolves to
FileCache_read(b, key) ==
    IF b.defined /\ bucketFind(b.bucket, key) # <<>>
    THEN Resolve(bucketFind(b.bucket, key)[2])
    ELSE Resolve(Undefined)

FileCache_write_keepingOld(b, key, data) ==
    IF b.defined THEN Append(b.bucket, <<key, data>>)
    ELSE << <<key, data>> >>

\* FileCache.write's handler: the bucket handed to writeFile
FileCache_write(b, key, data) ==
    IF b.defined THEN Append(bucketRemove(b.bucket, key), <<key, data>>)
    ELSE << <<key, data>> >>

\* FileCache.delete's handler: the file operation it starts, if any
FileCache_delete(b, key) ==
    IF b.defined /\ bucketFind(b.bucket, key) # <<>> /\ Len(b.bucket) > 1
    THEN [pc |-> "writeFile", bucket |-> bucketRemove(b.bucket, key)]
    ELSE IF b.defined THEN [pc |-> "unlink", bucket |-> <<>>]
    ELSE [pc |-> "settled", bucket |-> <<>>]

\* One call of read, write or delete: where its chain stands (pc), the
\* promise it returned, the bucket its handler handed to writeFile, the
\* errors its file operations called back with, whether it changed a file,
\* the calls that were in flight together with it, and the files as they
\* were when it was called.
InFlight == {"readFile", "writeFile", "unlink"}
NoCall ==
    [op |-> "none", key |-> "", data |-> "", id |-> 0, pc |-> "idle",
     promise |-> Pending, bucket |-> <<>>, readErr |-> NoError,
     fileErr |-> NoError, changed |-> FALSE, with |-> {},
     before |-> [f \in CachePaths |-> NoFile]]

(***************************************************************************)
(* Name utilities: acronym (util) and PhpSymbol.keys (symbol), as section  *)
(* 4.6 of the specification describes them, with the names and the         *)
(* expected results of the unit tests.  A name is a sequence of            *)
(* characters.                                                             *)
(***************************************************************************)
MaxWords == 3        \* words in a generated name

UpperCase == <<"A", "B", "C", "D", "E", "F", "G", "H", "I", "J", "K", "L", "M", "N", "O", "P", "Q", "R", "S", "T", "U", "V", "W", "X", "Y", "Z">>
LowerCase == <<"a", "b", "c", "d", "e", "f", "g", "h", "i", "j", "k", "l", "m", "n", "o", "p", "q", "r", "s", "t", "u", "v", "w", "x", "y", "z">>

IsUpper(c) == \E i \in 1..26 : UpperCase[i] = c
IsLower(c) == \E i \in 1..26 : LowerCase[i] = c
Lower(c) == IF IsUpper(c) THEN LowerCase[CHOOSE i \in 1..26 : UpperCase[i] = c] ELSE c
Upper(c) == IF IsLower(c) THEN UpperCase[CHOOSE i \in 1..26 : LowerCase[i] = c] ELSE c

toLowerCase(s) == [i \in 1..Len(s) |-> Lower(s[i])]
toUpperCase(s) == [i \in 1..Len(s) |-> Upper(s[i])]

\* s.slice(from - 1)
SliceFrom(s, from) == SubSeq(s, from, Len(s))

Sigils == {"$", "_"}

\* the name without its leading `$` and `_`
StripSigils(text) ==
    LET kept == {i \in 1..Len(text) : \E j \in 1..i : text[j] \notin Sigils}
    IN IF kept = {} THEN <<>>
       ELSE SliceFrom(text, CHOOSE i \in kept : \A j \in kept : i <= j)

\* the positions of a set in ascending order
RECURSIVE Ascending(_)
Ascending(positions) ==
    IF positions = {} THEN <<>>
    ELSE LET least == CHOOSE i \in positions : \A j \in positions : i <= j
         IN <<least>> \o Ascending(positions \ {least})

\* a camelCase name: letters of both cases and no underscore
IsCamelCase(text) ==
    /\ \E i \in 1..Len(text) : IsUpper(text[i])
    /\ \E i \in 1..Len(text) : IsLower(text[i])
    /\ \A i \in 1..Len(text) : text[i] # "_"

\* acronym: the first letter and every uppercase letter of a camelCase
\* name, the first letter of every underscore-delimited part of a
\* snake_case or SCREAMING_CASE name; lowercased.
acronym_starts(stripped) ==
    IF ~IsCamelCase(stripped)
    THEN {i \in 1..Len(stripped) :
             stripped[i] # "_" /\ (i = 1 \/ stripped[i - 1] = "_")}
    ELSE {i \in 1..Len(stripped) : i = 1 \/ IsUpper(stripped[i])}

acronym_keepingSigil(text) ==
    LET at == Ascending(acronym_starts(text))
    IN [i \in 1..Len(at) |-> Lower(text[at[i]])]

acronym(text) ==
    LET stripped == StripSigils(text)
        at == Ascending(acronym_starts(stripped))
    IN [i \in 1..Len(at) |-> Lower(stripped[at[i]])]

\* PhpSymbol.notFqn: the name after its last namespace separator
notFqn(name) ==
    LET seps == {i \in 1..Len(name) : name[i] = "\\"}
    IN IF seps = {} THEN name
       ELSE SliceFrom(name, 1 + CHOOSE i \in seps : \A j \in seps : j <= i)

\* PhpSymbol.keys: the lowercased name, then its lowercased suffix from every
\* boundary: after a namespace separator, a sigil or an underscore, and at
\* an uppercase letter that follows a lowercase one.
keys_boundaries(name) ==
    {i \in 2..Len(name) :
        /\ name[i] \notin Sigils \cup {"\\"}
        /\ \/ name[i - 1] \in Sigils \cup {"\\"}
           \/ IsUpper(name[i]) /\ IsLower(name[i - 1])}

keys_withoutHumps(name) ==
    LET at == Ascending({i \in 2..Len(name) :
                            /\ name[i] \notin Sigils \cup {"\\"}
                            /\ name[i - 1] \in Sigils \cup {"\\"}})
    IN <<toLowerCase(name)>>
       \o [i \in 1..Len(at) |-> toLowerCase(SliceFrom(name, at[i]))]

keys(name) ==
    LET at == Ascending(keys_boundaries(name))
    IN <<toLowerCase(name)>>
       \o [i \in 1..Len(at) |-> toLowerCase(SliceFrom(name, at[i]))]

\* The unit tests: name and expected result
AcronymTests ==
    {<<notFqn(<<"F", "o", "o", "\\", "M", "y", "F", "o", "o", "C", "l", "a", "s", "s">>), <<"m", "f", "c">>>>,
     <<<<"_", "m", "y", "_", "f", "u", "n", "c", "t", "i", "o", "n">>, <<"m", "f">>>>,
     <<<<"$", "m", "y", "P", "r", "o", "p", "e", "r", "t", "y">>, <<"m", "p">>>>,
     <<<<"T", "H", "I", "S", "_", "I", "S", "_", "A", "_", "C", "O", "N", "S", "T", "A", "N", "T">>, <<"t", "i", "a", "c">>>>}

KeysTests ==
    {<<<<"F", "o", "o", "\\", "M", "y", "F", "o", "o", "C", "l", "a", "s", "s">>,
       <<<<"f", "o", "o", "\\", "m", "y", "f", "o", "o", "c", "l", "a", "s", "s">>, <<"m", "y", "f", "o", "o", "c", "l", "a", "s", "s">>,
         <<"f", "o", "o", "c", "l", "a", "s", "s">>, <<"c", "l", "a", "s", "s">>>> >>,
     <<<<"_", "m", "y", "_", "f", "u", "n", "c", "t", "i", "o", "n">>,
       <<<<"_", "m", "y", "_", "f", "u", "n", "c", "t", "i", "o", "n">>, <<"m", "y", "_", "f", "u", "n", "c", "t", "i", "o", "n">>, <<"f", "u", "n", "c", "t", "i", "o", "n">>>> >>,
     <<<<"$", "m", "y", "P", "r", "o", "p", "e", "r", "t", "y">>,
       <<<<"$", "m", "y", "p", "r", "o", "p", "e", "r", "t", "y">>, <<"m", "y", "p", "r", "o", "p", "e", "r", "t", "y">>, <<"p", "r", "o", "p", "e", "r", "t", "y">>>> >>,
     <<<<"T", "H", "I", "S", "_", "I", "S", "_", "A", "_", "C", "O", "N", "S", "T", "A", "N", "T">>,
       <<<<"t", "h", "i", "s", "_", "i", "s", "_", "a", "_", "c", "o", "n", "s", "t", "a", "n", "t">>, <<"i", "s", "_", "a", "_", "c", "o", "n", "s", "t", "a", "n", "t">>,
         <<"a", "_", "c", "o", "n", "s", "t", "a", "n", "t">>, <<"c", "o", "n", "s", "t", "a", "n", "t">>>> >>}

\* Names as PHP code writes them: words in one of four styles, behind an
\* optional sigil and an optional namespace.
Words == {<<"m", "y">>, <<"f", "o", "o">>}
Styles == {"camelCase", "PascalCase", "snake_case", "SCREAMING_CASE"}
Prefixes == {<<>>, <<"$">>, <<"_">>, <<"N", "s", "\\">>}

Capitalise(w) == <<Upper(w[1])>> \o Tail(w)

RECURSIVE Styled(_, _)
Styled(words, style) ==
    IF Len(words) = 1
    THEN CASE style = "camelCase" -> words[1]
           [] style = "PascalCase" -> Capitalise(words[1])
           [] style = "snake_case" -> words[1]
           [] style = "SCREAMING_CASE" -> toUpperCase(words[1])
    ELSE LET w == words[Len(words)]
             front == Styled(SubSeq(words, 1, Len(words) - 1), style)
         IN CASE style \in {"camelCase", "PascalCase"} -> front \o Capitalise(w)
              [] style = "snake_case" -> front \o <<"_">> \o w
              [] style = "SCREAMING_CASE" -> front \o <<"_">> \o toUpperCase(w)

WordSeqs == UNION {[1..n -> Words] : n \in 1..MaxWords}

NoName ==
    [what |-> "none", name |-> <<>>, prefix |-> <<>>, words |-> <<>>,
     acronym |-> <<>>, keys |-> <<>>]

(***************************************************************************)
(* Actions                                                                 *)
(***************************************************************************)
Init ==
    /\ spine = <<>>
    /\ nodeCount = 0
    /\ transformerStack = <<>>
    /\ lastTransformer = UndefinedEntry
    /\ classStack = <<>>
    /\ references = <<>>
    /\ nodeReference = <<>>
    /\ lastPhpDoc = NoDoc
    /\ status = "walking"
    /\ ev = NoEvent
    /\ tree = <<>>
    /\ rules = <<>>
    /\ namespace = 0
    /\ docGiven = <<>>
    /\ collection = UniqueSymbolCollection_new
    /\ pushed = <<>>
    /\ unit = NoUnit
    /\ files = [f \in CachePaths |-> NoFile]
    /\ slot = [i \in Slots |-> NoCall]
    /\ prev = NoCall
    /\ opCount = 0
    /\ everWritten = {}
    /\ nameCall = NoName

\* The walker enters a new node: the root, or the next child of the phrase
\* on top of the spine.
\* The nodes the walker can enter next, built from the given phrase and
\* token types; tokens are never the root.
NextNodes(phraseTypes, tokenTypes) ==
    LET id == nodeCount + 1
        h == Len(transformerStack)
    IN
    {PhraseNode(id, t, FALSE, h) : t \in phraseTypes}
    \cup {PhraseNode(id, "FunctionCallExpression", TRUE, h) :
             t \in phraseTypes \cap {"FunctionCallExpression"}}
    \cup (IF spine = <<>> THEN {} ELSE
          {TokenNode(id, t, "", h) : t \in tokenTypes \ {"VariableName"}}
          \cup {TokenNode(id, "VariableName", x, h) :
                   x \in IF "VariableName" \in tokenTypes THEN VariableNames ELSE {}})

CanEnter(maxNodes, maxDepth) ==
    /\ status = "walking"
    /\ nodeCount < maxNodes
    /\ Len(spine) < maxDepth
    /\ spine = <<>> => nodeCount = 0
    /\ spine # <<>> => Last(spine).phrase

Preorder ==
    /\ CanEnter(MaxNodes, MaxDepth)
    /\ \E node \in NextNodes(WalkPhraseTypes, WalkTokenTypes) : preorder(node)
    /\ UNCHANGED <<collectionVars, unitVars, cacheVars, nameVars>>

\* The walker leaves the node on top of the spine.  A call of define has the
\* callee as its first child.
Postorder ==
    /\ status = "walking"
    /\ spine # <<>>
    /\ Last(spine).define => Last(spine).children > 0
    /\ postorder
    /\ UNCHANGED <<collectionVars, unitVars, cacheVars, nameVars>>

Next == Preorder \/ Postorder

\* The walk of trees built from a class, its header, its members and the
\* tokens that set and clear the doc slot.
DocPhraseTypes ==
    {"ClassDeclaration", "ClassDeclarationHeader", "MethodDeclaration",
     "MethodDeclarationHeader", "PropertyElement"}
DocTokenTypes == {"DocumentComment", "CloseBrace", "Semicolon"}

PreorderDoc ==
    /\ CanEnter(MaxDocNodes, MaxDocDepth)
    /\ \E node \in NextNodes(DocPhraseTypes, DocTokenTypes) : preorder(node)
    /\ UNCHANGED <<collectionVars, unitVars, cacheVars, nameVars>>

NextDoc == PreorderDoc \/ Postorder

SpecDoc == Init /\ [][NextDoc]_vars

Spec == Init /\ [][Next]_vars


(***************************************************************************)
(* The transformers of one declaration driven directly: each is built as   *)
(* preorder builds it, given its tokens as preorder gives them, and        *)
(* offered to its parent as postorder offers a popped transformer.         *)
(***************************************************************************)
\* the transformer preorder puts on the stack for a phrase of type pt
Construct(pt, parentType, parentTransform, define) ==
    preorderPhrase(PhraseNode(1, pt, define, 0), parentType, parentTransform,
                   NoNode).entry

\* some transformer, for the cases of preorder that only ask whether the
\* stack top is one
SomeParent == Transformer("TypeDeclarationBodyTransform", NoNode, "ClassDeclarationBody",
                          "", NoCollection)

RECURSIVE PushAll(_, _)
\* parent.push(c) for every c of children in turn, up to the first that throws
PushAll(parent, children) ==
    IF children = <<>>
    THEN [outcome |-> "ok", where |-> "", parent |-> parent, refs |-> <<>>]
    ELSE LET r == TransformerPush(parent, Head(children), <<>>) IN
         IF r.outcome = "throw" THEN r ELSE PushAll(r.parent, Tail(children))

\* preorder's pushes of the tokens of types toks to their parent transformer
PushTokens(parent, toks) ==
    LET given == SelectSeq(toks, TokenInPushRange) IN
    PushAll(parent, [i \in 1..Len(given) |-> TokenTransform(given[i])])

\* postorder's offer of a finished child to its parent, unless building the
\* child threw
Offer(child, parent) ==
    IF child.outcome = "throw" THEN child
    ELSE TransformerPush(parent, PoppedTransformer(child.parent), <<>>)

\* the sequences of at most n elements of set S
SeqsUpTo(S, n) == UNION {[1..k -> S] : k \in 0..n}

Outcome(what, toks, hasList, count, inBody, r) ==
    [what |-> what, tokens |-> toks, hasList |-> hasList, count |-> count,
     inBody |-> inBody, threw |-> r.outcome = "throw", where |-> r.where,
     modifiers |-> r.parent.modifiers, symbols |-> r.parent.items,
     symbol |-> r.parent.symbol, phraseType |-> "", written |-> "",
     reference |-> NoReference, kind |-> "", ns |-> "", doc |-> NoPhpDoc,
     magic |-> <<>>, name |-> "", children |-> <<>>, prefix |-> "", alias |-> "",
     type |-> ""]

\* A method declaration: an optional modifier list, the header, the method.
MethodDeclared ==
    /\ unit = NoUnit
    /\ \E hasList \in BOOLEAN :
       \E toks \in IF hasList THEN SeqsUpTo(ModifierTokens, MaxModifiers) ELSE {<<>>} :
          LET method == Construct("MethodDeclaration", "ClassDeclarationBody",
                                  SomeParent, FALSE)
              header == Construct("MethodDeclarationHeader", "MethodDeclaration",
                                  method, FALSE)
              list == PushTokens(Construct("MemberModifierList",
                                           "MethodDeclarationHeader", header, FALSE),
                                 toks)
              h == IF hasList THEN Offer(list, header) ELSE PushAll(header, <<>>)
          IN unit' = Outcome("Method", toks, hasList, 1, FALSE, Offer(h, method))
    /\ UNCHANGED <<walkVars, collectionVars, cacheVars, nameVars>>

\* A class declaration: the header with its abstract and final keywords,
\* the class.
ClassDeclared ==
    /\ unit = NoUnit
    /\ \E toks \in SeqsUpTo({"Abstract", "Final"}, MaxModifiers) :
          LET class == Construct("ClassDeclaration", "TopStatementList",
                                 SomeParent, FALSE)
              header == PushTokens(Construct("ClassDeclarationHeader",
                                             "ClassDeclaration", class, FALSE),
                                   toks)
          IN unit' = Outcome("Class", toks, FALSE, 1, FALSE, Offer(header, class))
    /\ UNCHANGED <<walkVars, collectionVars, cacheVars, nameVars>>

\* A property or class-constant declaration: an optional modifier list, the
\* list of elements, the declaration.
FieldDeclared ==
    /\ unit = NoUnit
    /\ \E what \in {"Property", "ClassConst"}, hasList \in BOOLEAN,
          count \in 1..MaxElements :
       \E toks \in IF hasList THEN SeqsUpTo(ModifierTokens, MaxModifiers) ELSE {<<>>} :
          LET decl == Construct(what \o "Declaration", "ClassDeclarationBody",
                                SomeParent, FALSE)
              list == PushTokens(Construct("MemberModifierList", what \o "Declaration",
                                           decl, FALSE),
                                 toks)
              elements == Construct(what \o "ElementList", what \o "Declaration",
                                    decl, FALSE)
              element == Construct(what \o "Element", what \o "ElementList",
                                   elements, FALSE)
              filled == PushAll(elements,
                                [i \in 1..count |-> PoppedTransformer(element)])
              d == IF hasList THEN Offer(list, decl) ELSE PushAll(decl, <<>>)
          IN unit' = Outcome(what, toks, hasList, count, FALSE,
                             IF d.outcome = "throw" THEN d
                             ELSE Offer(filled, d.parent))
    /\ UNCHANGED <<walkVars, collectionVars, cacheVars, nameVars>>

\* A call of define: the argument list with its literal tokens, the call,
\* and the function body the call stands in, if any.
DefineCalled ==
    /\ unit = NoUnit
    /\ \E inBody \in BOOLEAN :
       \E toks \in SeqsUpTo({"StringLiteral", "IntegerLiteral", "Name"}, MaxArgs) :
          LET body == Construct("FunctionDeclarationBody", "FunctionDeclaration",
                                SomeParent, FALSE)
              call == Construct("FunctionCallExpression", "ExpressionStatement",
                                body, TRUE)
              args == PushTokens(Construct("ArgumentExpressionList",
                                           "FunctionCallExpression", call, FALSE),
                                 toks)
              called == Offer(args, call)
          IN unit' = Outcome("Define", toks, FALSE, Len(toks), inBody,
                             IF inBody THEN Offer(called, body) ELSE called)
    /\ UNCHANGED <<walkVars, collectionVars, cacheVars, nameVars>>

\* the name of a member as written: a Name token under a MemberName, a
\* VariableName token or an Identifier holding a Name token under a
\* ScopedMemberName
MemberNameForms ==
    {[member |-> "MemberName", holder |-> "", token |-> "Name", written |-> "prop"],
     [member |-> "MemberName", holder |-> "", token |-> "Name", written |-> "meth"],
     [member |-> "ScopedMemberName", holder |-> "", token |-> "VariableName",
      written |-> "$prop"],
     [member |-> "ScopedMemberName", holder |-> "Identifier", token |-> "Name",
      written |-> "meth"],
     [member |-> "ScopedMemberName", holder |-> "Identifier", token |-> "Name",
      written |-> "FOO"]}

\* A member access expression: the expression, its member name with the
\* name's token, the member name offered to the expression.
MemberAccessed ==
    /\ unit = NoUnit
    /\ \E pt \in DOMAIN MemberAccessKinds, f \in MemberNameForms :
          \* a scoped expression has a ScopedMemberName, the others a MemberName
          /\ (f.member = "MemberName")
                <=> (pt \in {"PropertyAccessExpression", "MethodCallExpression"})
          /\ LET access == Construct(pt, "ExpressionStatement", SomeParent, FALSE)
                 member == Construct(f.member, pt, access, FALSE)
                 refs == 1 :> Reference_create("None", "")
                 holder == preorderPhrase(PhraseNode(2, f.holder, FALSE, 0),
                                          f.member, member, NoNode)
                 named ==
                    IF f.holder = ""
                    THEN TransformerPush(member, TokenTransform(f.token), refs)
                    ELSE IF holder.outcome = "push" /\ ~IsTransformer(holder.entry)
                    THEN \* postorder reads transformer.node of the entry
                         [outcome |-> "throw", where |-> "transformer.node",
                          parent |-> member, refs |-> refs]
                    ELSE TransformerPush(member, PoppedTransformer(holder.entry),
                                         refs)
                 r == IF named.outcome = "throw" THEN named
                      ELSE TransformerPush(access, PoppedTransformer(named.parent),
                                           named.refs)
             IN unit' = [Outcome("MemberAccess", <<f.token>>, FALSE, 1, FALSE, r)
                            EXCEPT !.phraseType = pt, !.written = f.written,
                                   !.reference = r.refs[1]]
    /\ UNCHANGED <<walkVars, collectionVars, cacheVars, nameVars>>

\* the names written in a name position (without `\` or `namespace\` in
\* front), the kinds a name's context asks for, the current namespaces
QualifiedNames == {"foo", "int", "INT", "void"}
ContextKinds == {"Class", "Function", "Constant"}
Namespaces == {"", "NS"}

\* A qualified, relative or fully-qualified name: the name's transformer,
\* then the transformer of the NamespaceName it wraps, given its Name token
\* and offered to the name's transformer.
NameReferenced ==
    /\ unit = NoUnit
    /\ \E pt \in {"QualifiedName", "RelativeQualifiedName", "FullyQualifiedName"},
          written \in QualifiedNames, kind \in ContextKinds, ns \in Namespaces :
          LET name == Construct(pt, "ExpressionStatement", SomeParent, FALSE)
              part == preorderPhrase(PhraseNode(2, "NamespaceName", FALSE, 0), pt,
                                     name, NoNode)
              r == IF part.outcome = "throw"
                   THEN [outcome |-> "throw", where |-> part.where, parent |-> name,
                         refs |-> <<>>]
                   ELSE Offer(PushTokens(part.entry, <<"Name">>), name)
          IN unit' = [Outcome("Name", <<"Name">>, FALSE, 1, FALSE, r)
                         EXCEPT !.phraseType = pt, !.written = written,
                                !.kind = kind, !.ns = ns]
    /\ UNCHANGED <<walkVars, collectionVars, cacheVars, nameVars>>

\* the doc comments that can precede a declaration
PhpDocs ==
    {NoPhpDoc} \cup
    {[propertyTags |-> p, methodTags |-> m, isDoc |-> TRUE] :
        p \in SeqsUpTo(PropertyTags, MaxTags), m \in SeqsUpTo(MethodTags, MaxTags)}

\* A class, interface or trait declaration after a doc comment: the
\* declaration's transformer, its header with or without a Name token, its
\* body with the methods declared in it.
TypeDeclared ==
    /\ unit = NoUnit
    /\ \E kind \in {"Class", "Interface", "Trait"}, doc \in PhpDocs,
          named \in BOOLEAN, members \in 0..MaxMembers :
          LET built == Construct(kind \o "Declaration", "TopStatementList",
                                 SomeParent, FALSE)
              decl == [built EXCEPT !.symbol = [kind |-> kind, name |-> "",
                                                location |-> 0],
                                    !.items = TypeDeclaration_children(kind, doc)]
              header == PushTokens(Construct(kind \o "DeclarationHeader",
                                             kind \o "Declaration", decl, FALSE),
                                   IF named THEN <<"Name">> ELSE <<>>)
              body == Construct(kind \o "DeclarationBody", kind \o "Declaration",
                                decl, FALSE)
              method == Construct("MethodDeclaration", kind \o "DeclarationBody",
                                  body, FALSE)
              filled == PushAll(body, [i \in 1..members |-> PoppedTransformer(method)])
              headed == Offer(header, decl)
              r == IF headed.outcome = "throw" THEN headed
                   ELSE Offer(filled, headed.parent)
          IN unit' = [Outcome("Type", IF named THEN <<"Name">> ELSE <<>>, FALSE,
                              members, FALSE, r)
                         EXCEPT !.kind = kind, !.doc = doc,
                                !.magic = IF doc.isDoc THEN phpDocMembers(doc)
                                          ELSE <<>>,
                                !.name = r.parent.symbol.name,
                                !.children = r.parent.items, !.symbols = <<>>]
    /\ UNCHANGED <<walkVars, collectionVars, cacheVars, nameVars>>

\* the `function` or `const` keyword of a use declaration or of a clause of
\* a group, if any; the prefix of a group; the alias of a clause
UseKeywords == {"", "Function", "Const"}
UsePrefixes == {"", "A"}
UseAliases == {"", "D"}

\* A use declaration with one clause: the declaration's transformer with
\* its keyword, then the transformer of the clause.
UseDeclared ==
    /\ unit = NoUnit
    /\ \E keyword \in UseKeywords, clauseKeyword \in UseKeywords,
          prefix \in UsePrefixes, alias \in UseAliases :
          \* a clause has a keyword of its own in a group only
          /\ clauseKeyword # "" => (prefix # "" /\ keyword = "")
          /\ LET built == Construct("NamespaceUseDeclaration", "TopStatementList",
                                    SomeParent, FALSE)
                 decl == PushTokens(built, IF keyword = "" THEN <<>> ELSE <<keyword>>)
                 clause == preorderPhrase(
                               PhraseNode(2, IF prefix = "" THEN "NamespaceUseClause"
                                             ELSE "NamespaceUseGroupClause", FALSE, 0),
                               "NamespaceUseDeclaration", decl.parent, NoNode)
                 r == IF clause.outcome = "throw"
                      THEN [outcome |-> "throw", where |-> clause.where,
                            parent |-> decl.parent, refs |-> <<>>]
                      ELSE Offer(PushTokens(clause.entry,
                                            IF clauseKeyword = "" THEN <<>>
                                            ELSE <<clauseKeyword>>),
                                 decl.parent)
             IN unit' = [Outcome("Use", <<keyword, clauseKeyword>>, FALSE, 1, FALSE, r)
                            EXCEPT !.written = "B\\C", !.prefix = prefix,
                                   !.alias = alias]
    /\ UNCHANGED <<walkVars, collectionVars, cacheVars, nameVars>>

\* A closure: the expression's transformer; its header with a parameter
\* and a use clause, if written; its body with a variable, if written.
ClosureCreated ==
    /\ unit = NoUnit
    /\ \E hasParameter \in BOOLEAN, hasUse \in BOOLEAN, byRef \in BOOLEAN,
          hasVariable \in BOOLEAN :
          /\ byRef => hasUse
          /\ LET closure == Construct("AnonymousFunctionCreationExpression",
                                      "ExpressionStatement", SomeParent, FALSE)
                 header == Construct("AnonymousFunctionHeader",
                                     "AnonymousFunctionCreationExpression", closure,
                                     FALSE)
                 parameter ==
                    PushTokens(Construct("ParameterDeclaration",
                                         "ParameterDeclarationList", header, FALSE),
                               <<"VariableName">>)
                 useClause ==
                    preorderPhrase(PhraseNode(2, "AnonymousFunctionUseClause", FALSE, 0),
                                   "AnonymousFunctionHeader", header, NoNode)
                 body == Construct("FunctionDeclarationBody",
                                   "AnonymousFunctionCreationExpression", closure, FALSE)
                 variable == Construct("SimpleVariable", "ExpressionStatement", body,
                                       FALSE)
                 h1 == IF hasParameter THEN Offer(parameter, header)
                       ELSE PushAll(header, <<>>)
                 h2 == IF h1.outcome = "throw" \/ ~hasUse THEN h1
                       ELSE IF useClause.outcome = "throw"
                       THEN [outcome |-> "throw", where |-> useClause.where,
                             parent |-> h1.parent, refs |-> <<>>]
                       ELSE h1
                 c1 == Offer(h2, closure)
                 b == IF hasVariable
                      THEN Offer(PushTokens(variable, <<"VariableName">>), body)
                      ELSE PushAll(body, <<>>)
                 r == IF c1.outcome = "throw" THEN c1 ELSE Offer(b, c1.parent)
             IN unit' = [Outcome("Closure",
                                 IF byRef THEN <<"Ampersand">> ELSE <<>>, hasUse,
                                 IF hasParameter THEN 1 ELSE 0, hasVariable, r)
                            EXCEPT !.children = r.parent.value.symbols, !.symbols = <<>>]
    /\ UNCHANGED <<walkVars, collectionVars, cacheVars, nameVars>>

\* what a type declaration can be written as, and where it stands
TypeForms ==
    {[token |-> "Callable", name |-> "", written |-> "callable"],
     [token |-> "Array", name |-> "", written |-> "array"],
     [token |-> "", name |-> "QualifiedName", written |-> "int"],
     [token |-> "", name |-> "FullyQualifiedName", written |-> "foo"]}
TypePositions == {"ParameterDeclaration", "ReturnType"}

\* The type declaration of a parameter, or the return type of a function:
\* the transformer of the type declaration, given its token or its name.
TypeWritten ==
    /\ unit = NoUnit
    /\ \E f \in TypeForms, position \in TypePositions :
          LET header == Construct("FunctionDeclarationHeader", "FunctionDeclaration",
                                  SomeParent, FALSE)
              holder == preorderPhrase(PhraseNode(2, position, FALSE, 0),
                                       "FunctionDeclarationHeader", header, NoNode)
              declaration == Construct("TypeDeclaration", position, holder.entry, FALSE)
              name == Construct(f.name, "TypeDeclaration", declaration, FALSE)
              part == preorderPhrase(PhraseNode(4, "NamespaceName", FALSE, 0), f.name,
                                     name, NoNode)
              thrown(w) == [outcome |-> "throw", where |-> w, parent |-> NullEntry,
                            refs |-> <<>>]
              r == IF holder.outcome = "throw" THEN thrown(holder.where)
                   ELSE IF f.token # "" THEN PushTokens(declaration, <<f.token>>)
                   ELSE IF part.outcome = "throw" THEN thrown(part.where)
                   ELSE Offer(Offer(PushTokens(part.entry, <<"Name">>), name),
                              declaration)
          IN unit' = [Outcome("TypeDeclaration", <<f.token>>, FALSE, 1, FALSE, r)
                         EXCEPT !.phraseType = position, !.written = f.written,
                                !.type = r.parent.type]
    /\ UNCHANGED <<walkVars, collectionVars, cacheVars, nameVars>>

NextUnit ==
    \/ MethodDeclared \/ ClassDeclared \/ FieldDeclared \/ DefineCalled
    \/ MemberAccessed \/ NameReferenced \/ TypeDeclared \/ UseDeclared
    \/ ClosureCreated \/ TypeWritten

SpecUnit == Init /\ [][NextUnit]_vars


(***************************************************************************)
(* UniqueSymbolCollection driven directly                                  *)
(***************************************************************************)
\* The symbols pushed: two ordinary names as variable, parameter and
\* function, every inbuilt name as a variable, and $this also as a
\* parameter and as a function.
PushPool ==
    ({"Variable", "Parameter", "Function"} \X {"$a", "$b"})
    \cup ({"Variable"} \X _inbuilt)
    \cup ({"Parameter", "Function"} \X {"$this"})

\* the symbol for pool element p pushed as the k-th symbol: its location
\* tells it from every other symbol pushed
PoolSymbol(p, k) == [kind |-> p[1], name |-> p[2], location |-> k]

CollectionPush ==
    /\ Len(pushed) < MaxPushes
    /\ \E p \in PushPool :
          LET s == PoolSymbol(p, Len(pushed) + 1) IN
          /\ collection' = UniqueSymbolCollection_push(collection, s)
          /\ pushed' = Append(pushed, s)
    /\ UNCHANGED <<walkVars, unitVars, cacheVars, nameVars>>

CollectionPushMany ==
    \E n \in 2..MaxMany :
       /\ Len(pushed) + n <= MaxPushes
       /\ \E ps \in [1..n -> PushPool] :
             LET symbols == [i \in 1..n |-> PoolSymbol(ps[i], Len(pushed) + i)] IN
             /\ collection' = UniqueSymbolCollection_pushMany(collection, symbols)
             /\ pushed' = pushed \o symbols
       /\ UNCHANGED <<walkVars, unitVars, cacheVars, nameVars>>

NextCollection == CollectionPush \/ CollectionPushMany

SpecCollection == Init /\ [][NextCollection]_vars


(***************************************************************************)
(* Properties of UniqueSymbolCollection (checked under SpecCollection)     *)
(***************************************************************************)
Superglobals ==
    {"$GLOBALS", "$_SERVER", "$_GET", "$_POST", "$_FILES", "$_REQUEST",
     "$_SESSION", "$_ENV", "$_COOKIE", "$php_errormsg", "$HTTP_RAW_POST_DATA",
     "$http_response_header", "$argc", "$argv", "$this"}

NotVariableOrParameter(s) == ~IsVariableOrParameter(s)

\* pushed[k] is a Variable or Parameter and no Variable or Parameter of its
\* name was pushed before it
FirstOfItsName(k) ==
    /\ IsVariableOrParameter(pushed[k])
    /\ \A m \in 1..(k - 1) :
          ~(IsVariableOrParameter(pushed[m]) /\ pushed[m].name = pushed[k].name)

\* C6: after any sequence of push and pushMany calls no two Variable or
\* Parameter symbols of the collection share a name, the one kept for a name
\* is the first Variable or Parameter pushed with it, and the kept symbols
\* are in the order they were pushed.
C6_UniqueVariableNames ==
    LET S == collection.symbols IN
    /\ \A i, j \in 1..Len(S) :
          (i < j /\ IsVariableOrParameter(S[i]) /\ IsVariableOrParameter(S[j]))
              => S[i].name # S[j].name
    /\ \A i \in 1..Len(S) :
          /\ S[i].location \in 1..Len(pushed)
          /\ pushed[S[i].location] = S[i]
          /\ IsVariableOrParameter(S[i]) => FirstOfItsName(S[i].location)
    /\ \A i, j \in 1..Len(S) : i < j => S[i].location < S[j].location
    /\ \A k \in 1..Len(pushed) :
          (FirstOfItsName(k) /\ pushed[k].name \notin Superglobals)
              => \E i \in 1..Len(S) : S[i] = pushed[k]

\* a Parameter and then a Variable of the same ordinary name were pushed,
\* and then a Variable of another name: the first and the last are kept
C6_Witness ==
    /\ Len(pushed) = 3
    /\ pushed[1].kind = "Parameter" /\ pushed[2].kind = "Variable"
    /\ pushed[1].name = "$a" /\ pushed[2].name = "$a" /\ pushed[3].name = "$b"
    /\ pushed[3].kind = "Variable"
    /\ collection.symbols = <<pushed[1], pushed[3]>>

\* C7: after any sequence of push and pushMany calls the collection holds no
\* Variable or Parameter symbol named after a superglobal.
C7_NoSuperglobals ==
    /\ \A i \in 1..Len(collection.symbols) :
          IsVariableOrParameter(collection.symbols[i])
              => collection.symbols[i].name \notin Superglobals
    /\ Superglobals \subseteq collection.varMap

\* a superglobal was pushed as a Variable and $this as a Parameter, and an
\* ordinary variable pushed with them was kept
C7_Witness ==
    /\ \E k \in 1..Len(pushed) :
          pushed[k].kind = "Variable" /\ pushed[k].name \in Superglobals \ {"$this"}
    /\ \E k \in 1..Len(pushed) :
          pushed[k].kind = "Parameter" /\ pushed[k].name = "$this"
    /\ Len(collection.symbols) = 1

\* C8: a symbol that is neither Variable nor Parameter is always appended,
\* whatever names are present, and pushing it leaves the names that
\* de-duplicate later variables as they were.
C8_OthersAlwaysAppended ==
    /\ SelectSeq(collection.symbols, NotVariableOrParameter)
          = SelectSeq(pushed, NotVariableOrParameter)
    /\ collection.varMap =
          Superglobals \cup {pushed[k].name :
                                k \in {m \in 1..Len(pushed) :
                                          IsVariableOrParameter(pushed[m])}}

\* a function named $this and a function named $a were appended, the second
\* after a variable $a, and a variable $b pushed after a function $b is kept
C8_Witness ==
    \E i, j, k \in 1..Len(collection.symbols) :
       /\ collection.symbols[i].kind = "Function"
       /\ collection.symbols[i].name \in {"$this", "$b"}
       /\ collection.symbols[j].kind = "Variable"
       /\ collection.symbols[k].kind = "Function"
       /\ collection.symbols[k].name = collection.symbols[j].name
       /\ (collection.symbols[i].name = "$b" => j > i /\ k = i)
       /\ (collection.symbols[i].name = "$this" => j < k)


(***************************************************************************)
(* Properties of the walk (checked under Spec)                             *)
(***************************************************************************)
\* C1: for every phrase node the height of the transformer stack right
\* after its postorder equals the height right before its preorder.
C1_StackHeightRestored ==
    (ev.call = "postorder" /\ ev.phrase /\ ~ev.threw) => ev.hAfter = ev.h0

\* C2: preorder of a phrase node pushes exactly one entry on the transformer
\* stack (a transformer or a placeholder); preorder of a token pushes none.
C2_OneEntryPerPhrase ==
    (ev.call = "preorder" /\ ~ev.threw)
        => ev.hAfter = ev.hBefore + (IF ev.phrase THEN 1 ELSE 0)

DeclarationTypes ==
    {"FunctionDeclaration", "ClassDeclaration", "InterfaceDeclaration",
     "TraitDeclaration", "NamespaceDefinition", "ConstElement"}

\* the ids of the nodes of sequence s
Ids(s) == [i \in 1..Len(s) |-> s[i].id]

\* the locations of the symbols of sequence s
Locations(s) == [i \in 1..Len(s) |-> s[i].location]

IsTopLevelDeclaration(n) == n.parent = 1 /\ n.type \in DeclarationTypes

\* C3: when the walk of a tree rooted at a TopStatementList is over, the
\* transformer stack is empty and the pass's symbol is the File symbol named
\* by the document's URI, its children the symbols of the top-level
\* declarations in source order.
C3_FileSymbolAtEnd ==
    (tree # <<>> /\ tree[1].type = "TopStatementList" /\ status # "walking")
        => /\ status = "done"
           /\ transformerStack = <<>>
           /\ SymbolsPass_symbol.kind = "File"
           /\ SymbolsPass_symbol.name = TheUri
           /\ Locations(SymbolsPass_symbol.children)
                 = Ids(SelectSeq(tree, IsTopLevelDeclaration))

\* C4: every reference attached to the reference slot of a node is, once
\* the node is left, in the flat references list exactly once.
C4_ReferencesCollected ==
    \A n \in DOMAIN nodeReference :
       (\A i \in 1..Len(spine) : spine[i].id # n)
           => Cardinality({i \in 1..Len(references) : references[i] = n}) = 1

\* C5: preorder and postorder never fail on a placeholder: not when
\* postorder finds it on top of the stack, not when a popped transformer is
\* offered to it as its parent, and not when an expression sits in an
\* argument list that got a placeholder.
C5_PlaceholderNeverDereferenced ==
    ~(ev.threw /\ ev.where \in {"transformer.node", "parent.push",
                                "parentTransform.node"})

RECURSIVE IsUnder(_, _)
\* node n of the tree is a descendant of node a
IsUnder(n, a) == n # 0 /\ (tree[n].parent = a \/ IsUnder(tree[n].parent, a))

RECURSIVE FirstOccurrences(_)
\* the sequence with every element after its first occurrence removed
FirstOccurrences(s) ==
    IF s = <<>> THEN s
    ELSE LET f == FirstOccurrences(Front(s)) IN
         IF \E i \in 1..Len(f) : f[i] = Last(s) THEN f ELSE Append(f, Last(s))

\* the names of the parameters and variables written under function f, each
\* once, in the order of their first occurrence
VariablesOf(f) ==
    LET IsVariableOf(n) ==
            /\ n.type = "VariableName"
            /\ n.text \notin Superglobals
            /\ IsUnder(n.id, f)
            /\ tree[n.parent].type \in {"SimpleVariable", "ParameterDeclaration"}
        names == SelectSeq(tree, IsVariableOf)
    IN FirstOccurrences([i \in 1..Len(names) |-> names[i].text])

\* C9: a function declaration is entered and left without failure, and when
\* it is left its symbol's children are its parameters followed by the
\* variables of its body, each name once, in order of first occurrence.
C9_FunctionChildren ==
    ev.type = "FunctionDeclaration"
        => /\ ~ev.threw
           /\ ev.call = "postorder"
                 => /\ SymbolsPass_symbol.kind = "Function"
                    /\ [i \in 1..Len(SymbolsPass_symbol.children) |->
                            SymbolsPass_symbol.children[i].name]
                          = VariablesOf(ev.node)

ClassLikeTypes ==
    {"ClassDeclaration", "InterfaceDeclaration", "TraitDeclaration",
     "AnonymousClassDeclaration"}

IsClassLike(n) == n.type \in ClassLikeTypes

\* C10: at every point of a walk that has not failed the resolver's class
\* stack holds exactly the class, interface, trait and anonymous class
\* declarations on the path from the root to the current node, outermost
\* first; it is empty when the walk is over.
C10_ClassStackFollowsSpine ==
    status # "failed" => classStack = Ids(SelectSeq(spine, IsClassLike))

IsUseClause(n) == n.type \in PushesRule

\* C11: the resolver's rule list holds the symbols of exactly the use
\* clauses entered so far, each from the preorder of its node onward, in
\* source order.
C11_RulesFollowUseClauses ==
    rules = Ids(SelectSeq(tree, IsUseClause))

IsNamespaceDefinition(n) == n.type = "NamespaceDefinition"

\* C12: the resolver's current namespace is the symbol of the last
\* NamespaceDefinition entered, from the preorder of that node onward.
C12_NamespaceFollowsDefinition ==
    LET defs == SelectSeq(tree, IsNamespaceDefinition) IN
    namespace = IF defs = <<>> THEN 0 ELSE Last(defs).id

(***************************************************************************)
(* Properties of the doc slot (checked under SpecDoc)                      *)
(***************************************************************************)
IsDocOrBrace(n) == n.type \in {"DocumentComment", "CloseBrace"}

C14_HeaderClearsDoc ==
    (ev.call = "postorder" /\ ev.type \in ClearsPhpDoc /\ ~ev.threw)
        => lastPhpDoc[1] # "doc"

\* C15: a doc comment is handed to one declaration only: no two of the
\* class, interface, trait, function, method, property, class-constant and
\* constant declarations created so far were created with the same doc
\* comment.
C15_DocConsumedOnce ==
    \A a, b \in DOMAIN docGiven :
       (/\ a # b
        /\ docGiven[a][1] = "doc"
        /\ tree[a].type # "ParameterDeclaration"
        /\ tree[b].type # "ParameterDeclaration")
           => docGiven[a] # docGiven[b]

(***************************************************************************)
(* Properties of declarations and define calls (checked under SpecUnit)    *)
(***************************************************************************)
\* the types of the tokens given include one of types S
Wrote(S) == \E i \in 1..Len(unit.tokens) : unit.tokens[i] \in S

\* C16: a Method symbol has exactly one of the Public, Protected and Private
\* bits, whatever the modifier tokens, and the bit is Public when no
\* visibility keyword is written.
C16_OneVisibilityBit ==
    unit.what = "Method"
        => /\ ~unit.threw
           /\ Cardinality(unit.modifiers \cap Visibility) = 1
           /\ ~Wrote(Visibility) => "Public" \in unit.modifiers

\* C17: no Class symbol and no Method symbol has both the Abstract and the
\* Final bit, whatever the modifier tokens.
C17_NotAbstractAndFinal ==
    unit.what \in {"Class", "Method"}
        => ~({"Abstract", "Final"} \subseteq unit.modifiers)

\* C18: a property or class-constant declaration yields one symbol for each
\* element of its list, each with every modifier of the modifier list, with
\* Public when no visibility keyword is written, and with Static when it is
\* a class constant.
C18_FieldModifiers ==
    unit.what \in {"Property", "ClassConst"}
        => /\ ~unit.threw
           /\ Len(unit.symbols) = unit.count
           /\ \A i \in 1..Len(unit.symbols) :
                 /\ \A j \in 1..Len(unit.tokens) :
                       unit.tokens[j] \in unit.symbols[i].modifiers
                 /\ ~Wrote(Visibility) => "Public" \in unit.symbols[i].modifiers
                 /\ unit.what = "ClassConst" => "Static" \in unit.symbols[i].modifiers

\* C19: a define call whose first argument is a string literal yields a
\* Constant symbol, which has a value and a type when the second argument
\* is a scalar literal.
C19_DefineYieldsConstant ==
    (unit.what = "Define" /\ ~unit.inBody
     /\ unit.count >= 1 /\ unit.tokens[1] = "StringLiteral")
        => /\ ~unit.threw
           /\ unit.symbol # NoSymbol
           /\ unit.symbol.kind = "Constant"

\* C20: a define call whose first argument is missing or is not a string
\* literal yields no Constant symbol and does not fail, whatever the second
\* argument is and whether or not the call stands in a function body.
C20_DefineWithoutNameIsSkipped ==
    (unit.what = "Define"
     /\ (unit.count = 0 \/ unit.tokens[1] # "StringLiteral"))
        => /\ ~unit.threw
           /\ unit.symbol = NoSymbol

\* C21: the member-name reference of a property access, scoped property
\* access, method call, scoped call and class-constant access has kind
\* Property, Property, Method, Method and ClassConstant; its name is the
\* written name, with one `$` in front when the kind is Property and the
\* written name is not empty and has none.
C21_MemberReference ==
    unit.what = "MemberAccess"
        => LET kind == CASE unit.phraseType \in {"PropertyAccessExpression",
                                                  "ScopedPropertyAccessExpression"}
                                -> "Property"
                         [] unit.phraseType \in {"MethodCallExpression",
                                                  "ScopedCallExpression"}
                                -> "Method"
                         [] OTHER -> "ClassConstant"
           IN /\ ~unit.threw
              /\ unit.reference.kind = kind
              /\ unit.reference.name =
                    IF kind = "Property" /\ unit.written \in {"prop", "meth", "FOO"}
                    THEN "$" \o unit.written
                    ELSE unit.written

(***************************************************************************)
(* Properties of name references (checked under SpecUnit)                  *)
(***************************************************************************)
ReservedWords ==
    {"int", "string", "bool", "float", "iterable", "true", "false", "null", "void",
     "object", "INT"}

\* C22: the reference of a qualified name written as a reserved word, in
\* any letter case, has the written name and no unresolvedName, for every
\* current namespace and contextual kind.
C22_ReservedWordKept ==
    (unit.what = "Name" /\ unit.phraseType = "QualifiedName"
     /\ unit.written \in ReservedWords)
        => /\ ~unit.threw
           /\ unit.reference.name = unit.written
           /\ unit.reference.unresolvedName = Undefined

\* C23: the reference of a qualified name has unresolvedName, equal to the
\* written name, exactly when the contextual kind is Function or Constant and
\* resolution gives another name than the written one (without use-rules:
\* when the name is not reserved and the current namespace is not empty);
\* with kind Class it has none.
C23_UnresolvedNameKept ==
    (unit.what = "Name" /\ unit.phraseType = "QualifiedName")
        => LET rewritten == unit.written \notin ReservedWords /\ unit.ns # "" IN
           IF unit.kind \in {"Function", "Constant"} /\ rewritten
           THEN unit.reference.unresolvedName = unit.written
           ELSE unit.reference.unresolvedName = Undefined

\* C24: the reference of a fully-qualified name has the written name
\* without the leading separator, whatever the current namespace; the
\* reference of a relative name has the written name prefixed with the
\* current namespace.
C24_FullyQualifiedVerbatim ==
    /\ (unit.what = "Name" /\ unit.phraseType = "FullyQualifiedName")
          => /\ ~unit.threw
             /\ unit.reference.name = unit.written
    /\ (unit.what = "Name" /\ unit.phraseType = "RelativeQualifiedName")
          => /\ ~unit.threw
             /\ unit.reference.name =
                   IF unit.ns = "" THEN unit.written
                   ELSE unit.ns \o "\\" \o unit.written

(***************************************************************************)
(* Properties of type declarations and doc tags (checked under SpecUnit)   *)
(***************************************************************************)
IsMagic(s) == "Magic" \in s.modifiers

\* C25: every child of a class, interface or trait symbol has the symbol's
\* name as its scope, the children made from @property and @method tags
\* included, and every parameter of a magic method has the method's name as
\* its scope.
C25_ChildScopeIsParentName ==
    unit.what = "Type"
        => \A i \in 1..Len(unit.children) :
              /\ unit.children[i].scope = unit.name
              /\ \A j \in 1..Len(unit.children[i].children) :
                    unit.children[i].children[j].scope = unit.children[i].name

\* C26: every symbol made from a @property, @property-read, @property-write
\* or @method tag has Magic and Public; it has ReadOnly exactly when the tag
\* is @property-read, WriteOnly exactly when it is @property-write, and
\* Static exactly when it is a static @method.
C26_MagicModifiers ==
    unit.what = "Type"
        => LET tags == unit.doc.propertyTags \o unit.doc.methodTags IN
           /\ Len(unit.magic) = Len(tags)
           /\ \A i \in 1..Len(tags) :
                 LET s == unit.magic[i]
                     t == tags[i]
                 IN /\ s.name = t.name
                    /\ {"Magic", "Public"} \subseteq s.modifiers
                    /\ ("ReadOnly" \in s.modifiers) <=> (t.tagName = "@property-read")
                    /\ ("WriteOnly" \in s.modifiers) <=> (t.tagName = "@property-write")
                    /\ ("Static" \in s.modifiers)
                          <=> (t.tagName = "@method" /\ t.isStatic)

\* a doc comment with a @property-read tag and a static @method was
\* converted
C26_Witness ==
    /\ unit.what = "Type"
    /\ \E i, j \in 1..Len(unit.magic) :
          /\ unit.magic[i].kind = "Property" /\ "ReadOnly" \in unit.magic[i].modifiers
          /\ unit.magic[j].kind = "Method" /\ "Static" \in unit.magic[j].modifiers

\* C27: a class, interface or trait declared after a doc comment has one
\* Magic child for each @property and @method tag of the comment, and when
\* the declaration is completed the methods declared in its body are among
\* its children too.
C27_MagicChildrenKept ==
    unit.what = "Type"
        => /\ Len(SelectSeq(unit.children, IsMagic))
                 = Len(unit.doc.propertyTags) + Len(unit.doc.methodTags)
           /\ ~unit.threw
                 => Len(unit.children)
                       = Len(SelectSeq(unit.children, IsMagic)) + unit.count

(***************************************************************************)
(* Properties of use declarations, closures and type declarations          *)
(* (checked under SpecUnit)                                                *)
(***************************************************************************)
\* C28: the Use symbol of a clause `B\C` has kind Class unless a function
\* or const keyword is written at the clause or at the declaration, the
\* clause's keyword taking precedence; its target is the group prefix
\* joined with the clause's name by one separator, or the name alone
\* without prefix; its name is the alias if there is one, else the last
\* segment `C`.
C28_UseSymbol ==
    unit.what = "Use"
        => LET keyword == IF unit.tokens[2] # "" THEN unit.tokens[2]
                          ELSE unit.tokens[1]
           IN /\ ~unit.threw
              /\ unit.symbol.kind = CASE keyword = "Function" -> "Function"
                                       [] keyword = "Const" -> "Constant"
                                       [] OTHER -> "Class"
              /\ unit.symbol.name = IF unit.alias # "" THEN unit.alias ELSE "C"
              /\ unit.reference.name = IF unit.prefix = "" THEN unit.written
                                        ELSE unit.prefix \o "\\" \o unit.written

\* C29: a closure symbol has the Anonymous modifier; its children are its
\* parameter, then its use-variable, then its body's variable, as many as
\* are written; the use-variable child has the Use modifier, and Reference
\* exactly when it is captured with `&`.
C29_ClosureChildren ==
    unit.what = "Closure"
        => /\ ~unit.threw
           /\ "Anonymous" \in unit.modifiers
           /\ Len(unit.children)
                 = unit.count + (IF unit.hasList THEN 1 ELSE 0)
                              + (IF unit.inBody THEN 1 ELSE 0)
           /\ unit.hasList
                 => LET use == unit.children[unit.count + 1] IN
                    /\ "Use" \in use.modifiers
                    /\ ("Reference" \in use.modifiers) <=> (unit.tokens # <<>>)

\* C30: the type of a type declaration is `callable` for a callable token,
\* `array` for an array token, and the name of the reference for a name (a
\* reserved word and a fully-qualified name as written), for a parameter's
\* type as for a return type.
C30_DeclaredType ==
    unit.what = "TypeDeclaration"
        => /\ ~unit.threw
           /\ unit.type = unit.written

(***************************************************************************)
(* FileCache: the calls and the callbacks of their file operations         *)
(***************************************************************************)
\* read, write and delete all begin alike: _filePath, then readFile, which
\* starts fs.readFile and returns.
Call(op, key, data) ==
    [NoCall EXCEPT !.op = op, !.key = key, !.data = data, !.id = opCount + 1,
                   !.pc = "readFile",
                   !.with = {slot[j].id : j \in {j \in Slots : slot[j].pc \in InFlight}},
                   !.before = files]

Called(i, op, key, data) ==
    /\ slot[i].pc \notin InFlight
    /\ slot' = [j \in Slots |->
                   IF j = i THEN Call(op, key, data)
                   ELSE IF slot[j].pc \in InFlight
                        THEN [slot[j] EXCEPT !.with = @ \cup {opCount + 1}]
                        ELSE slot[j]]
    /\ prev' = slot[i]
    /\ opCount' = opCount + 1
    /\ everWritten' = IF op = "write" THEN everWritten \cup {key} ELSE everWritten
    /\ UNCHANGED files
    /\ UNCHANGED <<walkVars, collectionVars, unitVars, nameVars>>

Read(i, key) == Called(i, "read", key, "")

Write(i, key, data) == Called(i, "write", key, data)

Delete(i, key) == Called(i, "delete", key, "")

\* fs.readFile calls back: readFile's promise settles (or does not), and
\* the handler of the call runs on it.  A rejection passes through `then`.
AfterReadFile(c, r) ==
    LET b == readFile(r)
        seen == [c EXCEPT !.readErr = r.err]
    IN
    IF b.state = "pending" THEN [seen EXCEPT !.pc = "stuck"]
    ELSE IF b.state = "rejected" THEN [seen EXCEPT !.pc = "settled", !.promise = b]
    ELSE IF c.op = "read"
    THEN [seen EXCEPT !.pc = "settled", !.promise = FileCache_read(b, c.key)]
    ELSE IF c.op = "write"
    THEN [seen EXCEPT !.pc = "writeFile",
                      !.bucket = FileCache_write(b, c.key, c.data)]
    ELSE LET d == FileCache_delete(b, c.key)
         IN [seen EXCEPT !.pc = d.pc, !.bucket = d.bucket,
                         !.promise = IF d.pc = "settled" THEN Resolve(Undefined)
                                     ELSE Pending]

ReadFileCallback(i) ==
    /\ slot[i].pc = "readFile"
    /\ \E fault \in BOOLEAN :
          slot' = [slot EXCEPT ![i] =
                      AfterReadFile(slot[i],
                          fs_readFile(files[_filePath(slot[i].key)], fault))]
    /\ UNCHANGED <<files, prev, opCount, everWritten>>
    /\ UNCHANGED <<walkVars, collectionVars, unitVars, nameVars>>

\* fs.writeFile replaces the file with the text of the bucket and calls back
WriteFileCallback(i) ==
    /\ slot[i].pc = "writeFile"
    /\ \E fault \in BOOLEAN :
          LET err == IF fault THEN EIO ELSE NoError
          IN
          /\ files' = IF fault THEN files
                      ELSE [files EXCEPT ![_filePath(slot[i].key)] =
                                            JSON_stringify(slot[i].bucket)]
          /\ slot' = [slot EXCEPT ![i].pc = "settled",
                                  ![i].promise = writeFile(err),
                                  ![i].fileErr = err,
                                  ![i].changed = ~fault]
    /\ UNCHANGED <<prev, opCount, everWritten>>
    /\ UNCHANGED <<walkVars, collectionVars, unitVars, nameVars>>

\* fs.unlink removes the file, if it is still there, and calls back
UnlinkCallback(i) ==
    /\ slot[i].pc = "unlink"
    /\ \E fault \in BOOLEAN :
          LET path == _filePath(slot[i].key)
              err == IF fault THEN EIO
                     ELSE IF files[path] = NoFile THEN ENOENT ELSE NoError
          IN
          /\ files' = IF err = NoError THEN [files EXCEPT ![path] = NoFile]
                      ELSE files
          /\ slot' = [slot EXCEPT ![i].pc = "settled",
                                  ![i].promise = deleteFile(err),
                                  ![i].fileErr = err,
                                  ![i].changed = (err = NoError)]
    /\ UNCHANGED <<prev, opCount, everWritten>>
    /\ UNCHANGED <<walkVars, collectionVars, unitVars, nameVars>>

\* Something other than the cache leaves text that is not JSON in a bucket
\* file (a crash in the middle of a write, another program).
Damaged(f) ==
    /\ files[f] # NotJson
    /\ files' = [files EXCEPT ![f] = NotJson]
    /\ UNCHANGED <<slot, prev, opCount, everWritten>>
    /\ UNCHANGED <<walkVars, collectionVars, unitVars, nameVars>>

\* The caller awaits every call before it makes the next.
AwaitedWithin(max) ==
    /\ opCount < max
    /\ \A j \in Slots : slot[j].pc \in {"idle", "settled"}

Awaited == AwaitedWithin(MaxOps)

NotAwaited == opCount < MaxAsyncOps

NextCache ==
    \/ \E key \in CacheKeys : Awaited /\ Read(1, key)
    \/ \E key \in CacheKeys, data \in CacheData : Awaited /\ Write(1, key, data)
    \/ \E key \in CacheKeys : Awaited /\ Delete(1, key)
    \/ ReadFileCallback(1)
    \/ WriteFileCallback(1)
    \/ UnlinkCallback(1)

SpecCache == Init /\ [][NextCache]_vars

\* The caller makes calls without awaiting the ones it has made.
NextCacheAsync ==
    \/ \E i \in Slots, key \in CacheKeys : NotAwaited /\ Read(i, key)
    \/ \E i \in Slots, key \in CacheKeys, data \in CacheData :
          NotAwaited /\ Write(i, key, data)
    \/ \E i \in Slots, key \in CacheKeys : NotAwaited /\ Delete(i, key)
    \/ \E i \in Slots : ReadFileCallback(i)
    \/ \E i \in Slots : WriteFileCallback(i)
    \/ \E i \in Slots : UnlinkCallback(i)

SpecCacheAsync == Init /\ [][NextCacheAsync]_vars

\* Awaited calls on a directory whose files can be damaged.  Node calls
\* back for every file operation it was given.
Callbacks ==
    \E i \in Slots : ReadFileCallback(i) \/ WriteFileCallback(i) \/ UnlinkCallback(i)

AwaitedFaulty == AwaitedWithin(MaxFaultyOps)

NextCacheFaulty ==
    \/ \E key \in CacheKeys : AwaitedFaulty /\ Read(1, key)
    \/ \E key \in CacheKeys, data \in CacheData : AwaitedFaulty /\ Write(1, key, data)
    \/ \E key \in CacheKeys : AwaitedFaulty /\ Delete(1, key)
    \/ ReadFileCallback(1)
    \/ WriteFileCallback(1)
    \/ UnlinkCallback(1)
    \/ \E f \in CachePaths : Damaged(f)

SpecCacheLive == Init /\ [][NextCacheFaulty]_vars /\ WF_vars(Callbacks)

(***************************************************************************)
(* FileCache: claims                                                       *)
(***************************************************************************)
\* The call the caller made last, and whether its promise resolved
Resolved(c) == c.pc = "settled" /\ c.promise.state = "resolved"

Rejected(c) == c.pc = "settled" /\ c.promise.state = "rejected"

\* The pairs a bucket file holds (none when there is no file)
PairsIn(fs, path) == IF fs[path][1] = "json" THEN fs[path][2] ELSE <<>>

PairsOf(fs, key) ==
    {i \in 1..Len(PairsIn(fs, _filePath(key))) : PairsIn(fs, _filePath(key))[i][1] = key}

\* C31: with calls made one after another, a resolved write(k, d) leaves
\* exactly one pair for k in its bucket file, a read(k) that follows a
\* resolved write(k, d) and resolves resolves to d, whatever the bucket held
\* before, and a resolved read of a key never written resolves to undefined.
C31_LastWriteWins ==
    /\ (slot[1].op = "write" /\ Resolved(slot[1])) =>
          Cardinality(PairsOf(files, slot[1].key)) = 1
    /\ (slot[1].op = "read" /\ Resolved(slot[1]) /\ prev.op = "write"
        /\ Resolved(prev) /\ prev.key = slot[1].key) =>
          slot[1].promise.value = prev.data
    /\ (slot[1].op = "read" /\ Resolved(slot[1])
        /\ slot[1].key \notin everWritten) =>
          slot[1].promise.value = Undefined

\* a read follows a write of a key that was stored with other data, in a
\* bucket that holds another key too, and gives the data written last
C31_Witness ==
    /\ slot[1].op = "read" /\ Resolved(slot[1])
    /\ prev.op = "write" /\ Resolved(prev) /\ prev.key = slot[1].key
    /\ PairsOf(prev.before, prev.key) # {}
    /\ Len(PairsIn(prev.before, _filePath(prev.key))) = 2
    /\ bucketFind(PairsIn(prev.before, _filePath(prev.key)), prev.key)[2] # prev.data
    /\ slot[1].promise.value = prev.data

\* What read(key) resolves to on the given files when fs.readFile succeeds
ReadsAs(fs, key) ==
    FileCache_read(readFile(fs_readFile(fs[_filePath(key)], FALSE)), key).value

\* C32: with calls made one after another, a resolved write(k, d) or
\* delete(k) leaves every other key k2 of the same bucket file reading as it
\* read when the call was made, whether or not the bucket held k.
C32_CollidingKeysUndisturbed ==
    (slot[1].op \in {"write", "delete"} /\ Resolved(slot[1])) =>
        \A k2 \in CacheKeys \ {slot[1].key} :
            _filePath(k2) = _filePath(slot[1].key) =>
                ReadsAs(files, k2) = ReadsAs(slot[1].before, k2)

\* C33: a call whose fs.readFile, fs.writeFile or fs.unlink called back with
\* an error other than ENOENT is rejected with that error's message; when
\* the error came from fs.readFile the call changed no file; a read or a
\* delete whose bucket file does not exist resolves, the read to undefined.
C33_FileErrors ==
    slot[1].pc = "settled" =>
        /\ (slot[1].readErr = EIO \/ slot[1].fileErr = EIO) =>
              /\ Rejected(slot[1])
              /\ slot[1].promise.value = Message(EIO)
        /\ slot[1].readErr = EIO =>
              /\ ~slot[1].changed
              /\ files = slot[1].before
        /\ (slot[1].readErr = ENOENT /\ slot[1].op = "read") =>
              /\ Resolved(slot[1])
              /\ slot[1].promise.value = Undefined
        /\ (slot[1].readErr = ENOENT /\ slot[1].op = "delete") =>
              /\ Resolved(slot[1])
              /\ files = slot[1].before

\* a write on a bucket file that holds pairs whose fs.readFile failed
C33_Witness ==
    /\ slot[1].op = "write" /\ slot[1].pc = "settled"
    /\ slot[1].readErr = EIO
    /\ files[_filePath(slot[1].key)] # NoFile
    /\ Rejected(slot[1])

\* C37: with calls made one after another, a read(k) that follows a resolved
\* delete(k) and resolves resolves to undefined; a resolved delete of the
\* only pair of a bucket leaves no bucket file; a delete of a key never
\* written, its file operations succeeding, resolves and changes no file.
C37_Delete ==
    /\ (slot[1].op = "read" /\ Resolved(slot[1]) /\ prev.op = "delete"
        /\ Resolved(prev) /\ prev.key = slot[1].key) =>
          slot[1].promise.value = Undefined
    /\ (slot[1].op = "delete" /\ Resolved(slot[1])
        /\ Len(PairsIn(slot[1].before, _filePath(slot[1].key))) = 1
        /\ PairsOf(slot[1].before, slot[1].key) # {}) =>
          files[_filePath(slot[1].key)] = NoFile
    /\ (slot[1].op = "delete" /\ slot[1].pc = "settled"
        /\ slot[1].key \notin everWritten
        /\ slot[1].readErr # EIO /\ slot[1].fileErr # EIO) =>
          /\ Resolved(slot[1])
          /\ files = slot[1].before

\* C38: two calls (write/write or write/delete) on different keys of one
\* bucket file, in flight together and with no third call, both resolved:
\* each written key reads as the data written and each deleted key reads as
\* undefined.
C38_ConcurrentCallsKeepBoth ==
    (/\ \A i \in Slots : slot[i].op \in {"write", "delete"} /\ Resolved(slot[i])
     /\ \E i \in Slots : slot[i].op = "write"
     /\ slot[1].with = {slot[2].id}
     /\ slot[2].with = {slot[1].id}
     /\ slot[1].key # slot[2].key
     /\ _filePath(slot[1].key) = _filePath(slot[2].key)) =>
        \A i \in Slots :
            ReadsAs(files, slot[i].key) =
                IF slot[i].op = "write" THEN slot[i].data ELSE Undefined

\* C39: the promise of every call that is in flight eventually settles
C39_EveryPromiseSettles ==
    \A i \in Slots :
        (slot[i].pc \in InFlight) ~> (slot[i].promise.state # "pending")

(***************************************************************************)
(* Name utilities: one call of acronym or of PhpSymbol.keys                *)
(***************************************************************************)
AcronymOf(name, prefix, words) ==
    /\ nameCall = NoName
    /\ nameCall' = [NoName EXCEPT !.what = "acronym", !.name = name,
                                  !.prefix = prefix, !.words = words,
                                  !.acronym = acronym(name)]
    /\ UNCHANGED <<walkVars, collectionVars, unitVars, cacheVars>>

KeysOf(name, prefix, words) ==
    /\ nameCall = NoName
    /\ nameCall' = [NoName EXCEPT !.what = "keys", !.name = name,
                                  !.prefix = prefix, !.words = words,
                                  !.keys = keys(name)]
    /\ UNCHANGED <<walkVars, collectionVars, unitVars, cacheVars>>

\* acronym is given the part of a name after its namespace
AcronymOfStyled ==
    \E prefix \in Prefixes, words \in WordSeqs, style \in Styles :
        AcronymOf(notFqn(prefix \o Styled(words, style)), prefix, words)

AcronymOfTested == \E t \in AcronymTests : AcronymOf(t[1], <<>>, <<>>)

KeysOfStyled ==
    \E prefix \in Prefixes, words \in WordSeqs, style \in Styles :
        KeysOf(prefix \o Styled(words, style), prefix, words)

KeysOfTested == \E t \in KeysTests : KeysOf(t[1], <<>>, <<>>)

NextNames == AcronymOfStyled \/ AcronymOfTested \/ KeysOfStyled \/ KeysOfTested

SpecNames == Init /\ [][NextNames]_vars

\* The first letters of the words a name was made of
FirstLetters(words) == [i \in 1..Len(words) |-> words[i][1]]

\* s is a strict right-suffix of t
StrictSuffix(s, t) ==
    /\ Len(s) < Len(t)
    /\ s = SliceFrom(t, Len(t) - Len(s) + 1)

\* C34: the acronym of a name has lowercase letters only and one letter per
\* word of the name, the word's first letter, the words being the camelCase
\* humps or the underscore-separated parts behind the leading sigil; the
\* names of the unit tests give the acronyms the tests expect.
C34_AcronymLaw ==
    nameCall.what = "acronym" =>
        /\ \A i \in 1..Len(nameCall.acronym) : IsLower(nameCall.acronym[i])
        /\ nameCall.words # <<>> =>
              /\ Len(nameCall.acronym) = Len(nameCall.words)
              /\ nameCall.acronym = FirstLetters(nameCall.words)
        /\ \A t \in AcronymTests :
              t[1] = nameCall.name => nameCall.acronym = t[2]

\* $myProperty gave mp
C34_Witness ==
    /\ nameCall.what = "acronym"
    /\ nameCall.name = <<"$", "m", "y", "P", "r", "o", "p", "e", "r", "t", "y">>
    /\ nameCall.acronym = <<"m", "p">>

\* C35: the first key is the lowercased name, every later key is a strict
\* right-suffix of the key before it, there is one key per boundary (one
\* per word, and one more for a name with a sigil or a namespace), no key
\* has an uppercase letter, and the last key is the final word; the names of
\* the unit tests give the keys the tests expect.
C35_KeysLaw ==
    nameCall.what = "keys" =>
        /\ nameCall.keys[1] = toLowerCase(nameCall.name)
        /\ \A i \in 2..Len(nameCall.keys) :
              StrictSuffix(nameCall.keys[i], nameCall.keys[i - 1])
        /\ \A i \in 1..Len(nameCall.keys) :
              \A j \in 1..Len(nameCall.keys[i]) : ~IsUpper(nameCall.keys[i][j])
        /\ nameCall.words # <<>> =>
              /\ Len(nameCall.keys) =
                    Len(nameCall.words) + (IF nameCall.prefix = <<>> THEN 0 ELSE 1)
              /\ nameCall.keys[Len(nameCall.keys)] =
                    nameCall.words[Len(nameCall.words)]
        /\ \A t \in KeysTests :
              t[1] = nameCall.name => nameCall.keys = t[2]

\* Foo\MyFooClass gave four keys, the last of them class
C35_Witness ==
    /\ nameCall.what = "keys"
    /\ nameCall.name = <<"F", "o", "o", "\\", "M", "y", "F", "o", "o", "C", "l", "a", "s", "s">>
    /\ Len(nameCall.keys) = 4
    /\ nameCall.keys[4] = <<"c", "l", "a", "s", "s">>

(***************************************************************************)
(* The walk: the variable of a catch clause (checked under Spec)           *)
(***************************************************************************)
IsCatchVariable(n) ==
    n.type = "VariableName" /\ n.parent # 0 /\ tree[n.parent].type = "CatchClause"

\* how many Variable symbols of the name the sequence holds
VariablesNamed(symbols, name) ==
    Cardinality({i \in 1..Len(symbols) :
                    symbols[i].kind = "Variable" /\ symbols[i].name = name})

\* the names of the catch variables entered so far under node a that the
\* collection does not drop as built in
CatchVariableNamesUnder(a) ==
    {tree[i].text : i \in {i \in 1..Len(tree) :
                              /\ IsCatchVariable(tree[i])
                              /\ IsUnder(i, a)
                              /\ tree[i].text \notin _inbuilt}}

\* C36: the preorder of the variable token of a catch clause inside a
\* function body does not fail and leaves one Variable symbol of its name
\* (none for a built-in name) with the nearest transformer on the stack, the
\* body's; and when the body is left its symbols, the catch variables among
\* them, are those of the transformer the pass has popped for the enclosing
\* declaration.
C36_CatchVariable ==
    /\ (ev.call = "preorder" /\ ev.type = "VariableName"
        /\ IsCatchVariable(tree[ev.node])
        /\ tree[1].type = "FunctionDeclarationBody") =>
          /\ ~ev.threw
          /\ LET n == NearestTransformer(transformerStack, Len(transformerStack))
             IN /\ n # 0
                /\ transformerStack[n].cls = "FunctionDeclarationBodyTransform"
                /\ VariablesNamed(transformerStack[n].value.symbols,
                                  tree[ev.node].text)
                      = IF tree[ev.node].text \in _inbuilt THEN 0 ELSE 1
    /\ (ev.call = "postorder" /\ ev.type = "FunctionDeclarationBody" /\ ~ev.threw) =>
          \A name \in CatchVariableNamesUnder(ev.node) :
              VariablesNamed(SymbolsPass_symbol.children, name) = 1

====
